---------------------------- MODULE Spec2Model ----------------------------
(***************************************************************************)
(* A model of pfr_scraper.py: the page-to-record extraction                *)
(* (parse_player_stats_page) and the resumable main loop of the script     *)
(* (roster file, stats file, processed flags).                             *)
(*                                                                         *)
(* Texts are sequences of one-character strings, so that int(), float()    *)
(* and the height/weight regular expression are computed character by      *)
(* character as Python computes them.                                      *)
(***************************************************************************)
EXTENDS Integers, Sequences, FiniteSets, TLC

(***************************************************************************)
(* Bounds of the model.                                                    *)
(***************************************************************************)
\* how many category tables a generated player page may hold at once
MaxPresent == 2
\* how many process starts (first run plus restarts) are explored
MaxRuns == 3
\* how many direct calls of parse_player_stats_page the call log records
MaxCalls == 2
\* how many entries a generated listing page may hold
MaxEntries == 2

(***************************************************************************)
(* Python values: int, float (n / 10^d, normalised), str and None.         *)
(***************************************************************************)
IntV(n) == [t |-> "int", n |-> n, d |-> 0, s |-> <<>>]
FloatV(n, d) == [t |-> "float", n |-> n, d |-> d, s |-> <<>>]
StrV(s) == [t |-> "str", n |-> 0, d |-> 0, s |-> s]
NoneV == [t |-> "none", n |-> 0, d |-> 0, s |-> <<>>]

DigitChars == {"0", "1", "2", "3", "4", "5", "6", "7", "8", "9"}
SpaceChars == {" ", "\n"}

IsDigit(c) == c \in DigitChars

DigitVal(c) ==
  CASE c = "0" -> 0 [] c = "1" -> 1 [] c = "2" -> 2 [] c = "3" -> 3
    [] c = "4" -> 4 [] c = "5" -> 5 [] c = "6" -> 6 [] c = "7" -> 7
    [] c = "8" -> 8 [] c = "9" -> 9

RECURSIVE LStrip(_)
LStrip(s) ==
  IF Len(s) > 0 /\ s[1] \in SpaceChars THEN LStrip(Tail(s)) ELSE s

RECURSIVE RStrip(_)
RStrip(s) ==
  IF Len(s) > 0 /\ s[Len(s)] \in SpaceChars
    THEN RStrip(SubSeq(s, 1, Len(s) - 1))
    ELSE s

\* str.strip(), which int() and float() apply to their argument
Strip(s) == RStrip(LStrip(s))

HasSign(s) == Len(s) > 0 /\ s[1] \in {"+", "-"}
Unsigned(s) == IF HasSign(s) THEN Tail(s) ELSE s
SignOf(s) == IF Len(s) > 0 /\ s[1] = "-" THEN -1 ELSE 1

AllDigits(s) == \A j \in 1..Len(s) : IsDigit(s[j])

RECURSIVE DigitsVal(_)
DigitsVal(s) ==
  IF Len(s) = 0 THEN 0
  ELSE 10 * DigitsVal(SubSeq(s, 1, Len(s) - 1)) + DigitVal(s[Len(s)])

\* int(text) succeeds on an optionally signed, non-empty run of digits
IntParses(text) ==
  LET b == Unsigned(Strip(text)) IN Len(b) > 0 /\ AllDigits(b)

IntOf(text) ==
  LET b == Strip(text) IN IntV(SignOf(b) * DigitsVal(Unsigned(b)))

\* position of the decimal point in an unsigned body, 0 when there is none
PointAt(b) ==
  IF \E j \in 1..Len(b) : b[j] = "."
    THEN CHOOSE j \in 1..Len(b) : b[j] = "." /\ \A k \in 1..(j - 1) : b[k] # "."
    ELSE 0

\* float(text) succeeds on digits, optionally with one decimal point, with
\* at least one digit on either side of it
FloatParses(text) ==
  LET b == Unsigned(Strip(text))
      p == PointAt(b)
  IN  IF p = 0 THEN Len(b) > 0 /\ AllDigits(b)
      ELSE LET w == SubSeq(b, 1, p - 1)
               f == SubSeq(b, p + 1, Len(b))
           IN  AllDigits(w) /\ AllDigits(f) /\ Len(w) + Len(f) > 0

RECURSIVE Normalise(_, _)
Normalise(n, d) ==
  IF d > 0 /\ n % 10 = 0 THEN Normalise(n \div 10, d - 1) ELSE FloatV(n, d)

FloatOf(text) ==
  LET s == Strip(text)
      b == Unsigned(s)
      p == PointAt(b)
      w == IF p = 0 THEN b ELSE SubSeq(b, 1, p - 1)
      f == IF p = 0 THEN <<>> ELSE SubSeq(b, p + 1, Len(b))
      r == Normalise(DigitsVal(w \o f), Len(f))
  IN  FloatV(SignOf(s) * r.n, r.d)

(***************************************************************************)
(* Texts used in the generated pages.                                      *)
(***************************************************************************)
EmptyText == <<>>
Txt3 == <<"3">>
Txt7 == <<"7">>
Txt9 == <<"9">>
Txt12 == <<"1", "2">>
Txt16 == <<"1", "6">>
Txt99 == <<"9", "9">>
TxtMinus5 == <<"-", "5">>
TxtPadded7 == <<" ", "7", "\n">>
TxtDecimal == <<"4", "5", ".", "6">>
TxtRecord == <<"7", "-", "3", "-", "0">>
TxtBad == <<"a", "b", "c">>
\* "QB 6-2,<newline><space>225lb": the pattern is there once whitespace is collapsed
TxtMetaMatch ==
  <<"Q", "B", " ", "6", "-", "2", ",", "\n", " ", "2", "2", "5", "l", "b">>
\* "QB 6-2 225lb": no comma, the pattern is absent
TxtMetaNoMatch ==
  <<"Q", "B", " ", "6", "-", "2", " ", "2", "2", "5", "l", "b">>

(***************************************************************************)
(* The footer lookups of parse_player_stats_page, in source order: the     *)
(* table variable searched, the data-stat key, the local assigned and the  *)
(* coercion applied.  blank marks the two lookups that test for ''.        *)
(***************************************************************************)
FieldSpecs ==
  <<
     [line |-> 152, table |-> "games_reg", stat |-> "g", var |-> "player_games_reg_g", type |-> "int", blank |-> FALSE],
     [line |-> 156, table |-> "games_reg", stat |-> "gs", var |-> "player_games_started_reg_g", type |-> "int", blank |-> TRUE],
     [line |-> 169, table |-> "games_post", stat |-> "g", var |-> "player_games_post_g", type |-> "int", blank |-> FALSE],
     [line |-> 173, table |-> "games_post", stat |-> "gs", var |-> "player_games_started_post_g", type |-> "int", blank |-> TRUE],
     [line |-> 210, table |-> "passing_reg", stat |-> "games", var |-> "player_games_reg_p", type |-> "int", blank |-> FALSE],
     [line |-> 214, table |-> "passing_reg", stat |-> "games_started", var |-> "player_games_started_reg_p", type |-> "int", blank |-> FALSE],
     [line |-> 218, table |-> "passing_reg", stat |-> "qb_rec", var |-> "player_qb_rec_reg", type |-> "text", blank |-> FALSE],
     [line |-> 222, table |-> "passing_reg", stat |-> "pass_cmp", var |-> "player_pass_cmp_reg", type |-> "int", blank |-> FALSE],
     [line |-> 226, table |-> "passing_reg", stat |-> "pass_att", var |-> "player_pass_att_reg", type |-> "int", blank |-> FALSE],
     [line |-> 230, table |-> "passing_reg", stat |-> "pass_cmp_pct", var |-> "player_pass_cmp_pct_reg", type |-> "float", blank |-> FALSE],
     [line |-> 234, table |-> "passing_reg", stat |-> "pass_yds", var |-> "player_pass_yds_reg", type |-> "int", blank |-> FALSE],
     [line |-> 238, table |-> "passing_reg", stat |-> "pass_td", var |-> "player_pass_td_reg", type |-> "int", blank |-> FALSE],
     [line |-> 242, table |-> "passing_reg", stat |-> "pass_td_pct", var |-> "player_pass_td_pct_reg", type |-> "float", blank |-> FALSE],
     [line |-> 246, table |-> "passing_reg", stat |-> "pass_int", var |-> "player_pass_int_reg", type |-> "int", blank |-> FALSE],
     [line |-> 250, table |-> "passing_reg", stat |-> "pass_int_pct", var |-> "player_pass_int_pct_reg", type |-> "float", blank |-> FALSE],
     [line |-> 254, table |-> "passing_reg", stat |-> "pass_first_down", var |-> "player_pass_first_down_reg", type |-> "int", blank |-> FALSE],
     [line |-> 258, table |-> "passing_reg", stat |-> "pass_success", var |-> "player_pass_success_reg", type |-> "float", blank |-> FALSE],
     [line |-> 262, table |-> "passing_reg", stat |-> "pass_long", var |-> "player_pass_long_reg", type |-> "int", blank |-> FALSE],
     [line |-> 266, table |-> "passing_reg", stat |-> "pass_yds_per_att", var |-> "player_pass_yds_per_att_reg", type |-> "float", blank |-> FALSE],
     [line |-> 270, table |-> "passing_reg", stat |-> "pass_adj_yds_per_att", var |-> "player_pass_adj_yds_per_att_reg", type |-> "float", blank |-> FALSE],
     [line |-> 274, table |-> "passing_reg", stat |-> "pass_yds_per_cmp", var |-> "player_pass_yds_per_cmp_reg", type |-> "float", blank |-> FALSE],
     [line |-> 278, table |-> "passing_reg", stat |-> "pass_yds_per_g", var |-> "player_pass_yds_per_g_reg", type |-> "float", blank |-> FALSE],
     [line |-> 282, table |-> "passing_reg", stat |-> "pass_rating", var |-> "player_pass_rating_reg", type |-> "float", blank |-> FALSE],
     [line |-> 286, table |-> "passing_reg", stat |-> "pass_sacked", var |-> "player_pass_sacked_reg", type |-> "int", blank |-> FALSE],
     [line |-> 290, table |-> "passing_reg", stat |-> "pass_sacked_yds", var |-> "player_pass_sacked_yds_reg", type |-> "int", blank |-> FALSE],
     [line |-> 294, table |-> "passing_reg", stat |-> "pass_sacked_pct", var |-> "player_pass_sacked_pct_reg", type |-> "float", blank |-> FALSE],
     [line |-> 298, table |-> "passing_reg", stat |-> "pass_net_yds_per_att", var |-> "player_pass_net_yds_per_att_reg", type |-> "float", blank |-> FALSE],
     [line |-> 302, table |-> "passing_reg", stat |-> "pass_adj_net_yds_per_att", var |-> "player_pass_adj_net_yds_per_att_reg", type |-> "float", blank |-> FALSE],
     [line |-> 306, table |-> "passing_reg", stat |-> "pass_adj_net_yds_per_att", var |-> "player_pass_adj_net_yds_per_att_reg", type |-> "float", blank |-> FALSE],
     [line |-> 310, table |-> "passing_reg", stat |-> "comebacks", var |-> "player_comebacks_reg", type |-> "int", blank |-> FALSE],
     [line |-> 314, table |-> "passing_reg", stat |-> "gwd", var |-> "player_gwd_reg", type |-> "int", blank |-> FALSE],
     [line |-> 348, table |-> "passing_post", stat |-> "games", var |-> "player_games_post_p", type |-> "int", blank |-> FALSE],
     [line |-> 352, table |-> "passing_post", stat |-> "games_started", var |-> "player_games_started_post_p", type |-> "int", blank |-> FALSE],
     [line |-> 356, table |-> "passing_post", stat |-> "qb_rec", var |-> "player_qb_rec_post", type |-> "text", blank |-> FALSE],
     [line |-> 360, table |-> "passing_post", stat |-> "pass_cmp", var |-> "player_pass_cmp_post", type |-> "int", blank |-> FALSE],
     [line |-> 364, table |-> "passing_post", stat |-> "pass_att", var |-> "player_pass_att_post", type |-> "int", blank |-> FALSE],
     [line |-> 368, table |-> "passing_post", stat |-> "pass_cmp_pct", var |-> "player_pass_cmp_pct_post", type |-> "float", blank |-> FALSE],
     [line |-> 372, table |-> "passing_post", stat |-> "pass_yds", var |-> "player_pass_yds_post", type |-> "int", blank |-> FALSE],
     [line |-> 376, table |-> "passing_post", stat |-> "pass_td", var |-> "player_pass_td_post", type |-> "int", blank |-> FALSE],
     [line |-> 380, table |-> "passing_post", stat |-> "pass_td_pct", var |-> "player_pass_td_pct_post", type |-> "float", blank |-> FALSE],
     [line |-> 384, table |-> "passing_post", stat |-> "pass_int", var |-> "player_pass_int_post", type |-> "int", blank |-> FALSE],
     [line |-> 388, table |-> "passing_post", stat |-> "pass_int_pct", var |-> "player_pass_int_pct_post", type |-> "float", blank |-> FALSE],
     [line |-> 392, table |-> "passing_post", stat |-> "pass_first_down", var |-> "player_pass_first_down_post", type |-> "int", blank |-> FALSE],
     [line |-> 396, table |-> "passing_post", stat |-> "pass_success", var |-> "player_pass_success_post", type |-> "float", blank |-> FALSE],
     [line |-> 400, table |-> "passing_post", stat |-> "pass_long", var |-> "player_pass_long_post", type |-> "int", blank |-> FALSE],
     [line |-> 404, table |-> "passing_post", stat |-> "pass_yds_per_att", var |-> "player_pass_yds_per_att_post", type |-> "float", blank |-> FALSE],
     [line |-> 408, table |-> "passing_post", stat |-> "pass_adj_yds_per_att", var |-> "player_pass_adj_yds_per_att_post", type |-> "float", blank |-> FALSE],
     [line |-> 412, table |-> "passing_post", stat |-> "pass_yds_per_cmp", var |-> "player_pass_yds_per_cmp_post", type |-> "float", blank |-> FALSE],
     [line |-> 416, table |-> "passing_post", stat |-> "pass_yds_per_g", var |-> "player_pass_yds_per_g_post", type |-> "float", blank |-> FALSE],
     [line |-> 420, table |-> "passing_post", stat |-> "pass_rating", var |-> "player_pass_rating_post", type |-> "float", blank |-> FALSE],
     [line |-> 424, table |-> "passing_post", stat |-> "pass_sacked", var |-> "player_pass_sacked_post", type |-> "int", blank |-> FALSE],
     [line |-> 428, table |-> "passing_post", stat |-> "pass_sacked_yds", var |-> "player_pass_sacked_yds_post", type |-> "int", blank |-> FALSE],
     [line |-> 432, table |-> "passing_post", stat |-> "pass_sacked_pct", var |-> "player_pass_sacked_pct_post", type |-> "float", blank |-> FALSE],
     [line |-> 436, table |-> "passing_post", stat |-> "pass_net_yds_per_att", var |-> "player_pass_net_yds_per_att_post", type |-> "float", blank |-> FALSE],
     [line |-> 440, table |-> "passing_post", stat |-> "pass_adj_net_yds_per_att", var |-> "player_pass_adj_net_yds_per_att_post", type |-> "float", blank |-> FALSE],
     [line |-> 444, table |-> "passing_post", stat |-> "pass_adj_net_yds_per_att", var |-> "player_pass_adj_net_yds_per_att_post", type |-> "float", blank |-> FALSE],
     [line |-> 448, table |-> "passing_post", stat |-> "comebacks", var |-> "player_comebacks_post", type |-> "int", blank |-> FALSE],
     [line |-> 452, table |-> "passing_post", stat |-> "gwd", var |-> "player_gwd_post", type |-> "int", blank |-> FALSE],
     [line |-> 488, table |-> "rushing_and_receiving_reg", stat |-> "games", var |-> "player_games_reg_rr", type |-> "int", blank |-> FALSE],
     [line |-> 492, table |-> "rushing_and_receiving_reg", stat |-> "games_started", var |-> "player_games_started_reg_rr", type |-> "int", blank |-> FALSE],
     [line |-> 496, table |-> "rushing_and_receiving_reg", stat |-> "rush_att", var |-> "player_rush_att_reg", type |-> "int", blank |-> FALSE],
     [line |-> 500, table |-> "rushing_and_receiving_reg", stat |-> "rush_yds", var |-> "player_rush_yds_reg", type |-> "int", blank |-> FALSE],
     [line |-> 504, table |-> "rushing_and_receiving_reg", stat |-> "rush_td", var |-> "player_rush_td_reg", type |-> "int", blank |-> FALSE],
     [line |-> 508, table |-> "rushing_and_receiving_reg", stat |-> "rush_first_down", var |-> "player_rush_first_down_reg", type |-> "int", blank |-> FALSE],
     [line |-> 512, table |-> "rushing_and_receiving_reg", stat |-> "rush_success", var |-> "player_rush_success_reg", type |-> "float", blank |-> FALSE],
     [line |-> 516, table |-> "rushing_and_receiving_reg", stat |-> "rush_long", var |-> "player_rush_long_reg", type |-> "int", blank |-> FALSE],
     [line |-> 520, table |-> "rushing_and_receiving_reg", stat |-> "rush_yds_per_att", var |-> "player_rush_yds_per_att_reg", type |-> "float", blank |-> FALSE],
     [line |-> 524, table |-> "rushing_and_receiving_reg", stat |-> "rush_yds_per_g", var |-> "player_rush_yds_per_g_reg", type |-> "float", blank |-> FALSE],
     [line |-> 528, table |-> "rushing_and_receiving_reg", stat |-> "rush_att_per_g", var |-> "player_rush_att_per_g_reg", type |-> "float", blank |-> FALSE],
     [line |-> 532, table |-> "rushing_and_receiving_reg", stat |-> "targets", var |-> "player_targets_reg", type |-> "int", blank |-> FALSE],
     [line |-> 536, table |-> "rushing_and_receiving_reg", stat |-> "rec", var |-> "player_rec_reg", type |-> "int", blank |-> FALSE],
     [line |-> 540, table |-> "rushing_and_receiving_reg", stat |-> "rec_yds", var |-> "player_rec_yds_reg", type |-> "int", blank |-> FALSE],
     [line |-> 544, table |-> "rushing_and_receiving_reg", stat |-> "rec_yds_per_rec", var |-> "player_rec_yds_per_rec_reg", type |-> "float", blank |-> FALSE],
     [line |-> 548, table |-> "rushing_and_receiving_reg", stat |-> "rec_td", var |-> "player_rec_td_reg", type |-> "int", blank |-> FALSE],
     [line |-> 552, table |-> "rushing_and_receiving_reg", stat |-> "rec_first_down", var |-> "player_rec_first_down_reg", type |-> "int", blank |-> FALSE],
     [line |-> 556, table |-> "rushing_and_receiving_reg", stat |-> "rec_success", var |-> "player_rec_success_reg", type |-> "float", blank |-> FALSE],
     [line |-> 560, table |-> "rushing_and_receiving_reg", stat |-> "rec_long", var |-> "player_rec_long_reg", type |-> "int", blank |-> FALSE],
     [line |-> 564, table |-> "rushing_and_receiving_reg", stat |-> "rec_per_g", var |-> "player_rec_per_g_reg", type |-> "float", blank |-> FALSE],
     [line |-> 568, table |-> "rushing_and_receiving_reg", stat |-> "rec_yds_per_g", var |-> "player_rec_yds_per_g_reg", type |-> "float", blank |-> FALSE],
     [line |-> 572, table |-> "rushing_and_receiving_reg", stat |-> "catch_pct", var |-> "player_catch_pct_reg", type |-> "float", blank |-> FALSE],
     [line |-> 576, table |-> "rushing_and_receiving_reg", stat |-> "rec_yds_per_tgt", var |-> "player_rec_yds_per_tgt_reg", type |-> "float", blank |-> FALSE],
     [line |-> 580, table |-> "rushing_and_receiving_reg", stat |-> "touches", var |-> "player_touches_reg", type |-> "int", blank |-> FALSE],
     [line |-> 584, table |-> "rushing_and_receiving_reg", stat |-> "yds_per_touch", var |-> "player_yds_per_touch_reg", type |-> "float", blank |-> FALSE],
     [line |-> 588, table |-> "rushing_and_receiving_reg", stat |-> "rush_receive_td", var |-> "player_rush_receive_td_reg", type |-> "int", blank |-> FALSE],
     [line |-> 624, table |-> "rushing_and_receiving_post", stat |-> "games", var |-> "player_games_post_rr", type |-> "int", blank |-> FALSE],
     [line |-> 628, table |-> "rushing_and_receiving_post", stat |-> "games_started", var |-> "player_games_started_post_rr", type |-> "int", blank |-> FALSE],
     [line |-> 632, table |-> "rushing_and_receiving_post", stat |-> "rush_att", var |-> "player_rush_att_post", type |-> "int", blank |-> FALSE],
     [line |-> 636, table |-> "rushing_and_receiving_post", stat |-> "rush_yds", var |-> "player_rush_yds_post", type |-> "int", blank |-> FALSE],
     [line |-> 640, table |-> "rushing_and_receiving_post", stat |-> "rush_td", var |-> "player_rush_td_post", type |-> "int", blank |-> FALSE],
     [line |-> 644, table |-> "rushing_and_receiving_post", stat |-> "rush_first_down", var |-> "player_rush_first_down_post", type |-> "int", blank |-> FALSE],
     [line |-> 648, table |-> "rushing_and_receiving_post", stat |-> "rush_success", var |-> "player_rush_success_post", type |-> "float", blank |-> FALSE],
     [line |-> 652, table |-> "rushing_and_receiving_post", stat |-> "rush_long", var |-> "player_rush_long_post", type |-> "int", blank |-> FALSE],
     [line |-> 656, table |-> "rushing_and_receiving_post", stat |-> "rush_yds_per_att", var |-> "player_rush_yds_per_att_post", type |-> "float", blank |-> FALSE],
     [line |-> 660, table |-> "rushing_and_receiving_post", stat |-> "rush_yds_per_g", var |-> "player_rush_yds_per_g_post", type |-> "float", blank |-> FALSE],
     [line |-> 664, table |-> "rushing_and_receiving_post", stat |-> "rush_att_per_g", var |-> "player_rush_att_per_g_post", type |-> "float", blank |-> FALSE],
     [line |-> 668, table |-> "rushing_and_receiving_post", stat |-> "targets", var |-> "player_targets_post", type |-> "int", blank |-> FALSE],
     [line |-> 672, table |-> "rushing_and_receiving_post", stat |-> "rec", var |-> "player_rec_post", type |-> "int", blank |-> FALSE],
     [line |-> 676, table |-> "rushing_and_receiving_post", stat |-> "rec_yds", var |-> "player_rec_yds_post", type |-> "int", blank |-> FALSE],
     [line |-> 680, table |-> "rushing_and_receiving_post", stat |-> "rec_yds_per_rec", var |-> "player_rec_yds_per_rec_post", type |-> "float", blank |-> FALSE],
     [line |-> 684, table |-> "rushing_and_receiving_post", stat |-> "rec_td", var |-> "player_rec_td_post", type |-> "int", blank |-> FALSE],
     [line |-> 688, table |-> "rushing_and_receiving_post", stat |-> "rec_first_down", var |-> "player_rec_first_down_post", type |-> "int", blank |-> FALSE],
     [line |-> 692, table |-> "rushing_and_receiving_post", stat |-> "rec_success", var |-> "player_rec_success_post", type |-> "float", blank |-> FALSE],
     [line |-> 696, table |-> "rushing_and_receiving_post", stat |-> "rec_long", var |-> "player_rec_long_post", type |-> "int", blank |-> FALSE],
     [line |-> 700, table |-> "rushing_and_receiving_post", stat |-> "rec_per_g", var |-> "player_rec_per_g_post", type |-> "float", blank |-> FALSE],
     [line |-> 704, table |-> "rushing_and_receiving_post", stat |-> "rec_yds_per_g", var |-> "player_rec_yds_per_g_post", type |-> "float", blank |-> FALSE],
     [line |-> 708, table |-> "rushing_and_receiving_post", stat |-> "catch_pct", var |-> "player_catch_pct_post", type |-> "float", blank |-> FALSE],
     [line |-> 712, table |-> "rushing_and_receiving_post", stat |-> "rec_yds_per_tgt", var |-> "player_rec_yds_per_tgt_post", type |-> "float", blank |-> FALSE],
     [line |-> 716, table |-> "rushing_and_receiving_post", stat |-> "touches", var |-> "player_touches_post", type |-> "int", blank |-> FALSE],
     [line |-> 720, table |-> "rushing_and_receiving_post", stat |-> "yds_per_touch", var |-> "player_yds_per_touch_post", type |-> "float", blank |-> FALSE],
     [line |-> 724, table |-> "rushing_and_receiving_post", stat |-> "rush_receive_td", var |-> "player_rush_receive_td_post", type |-> "int", blank |-> FALSE],
     [line |-> 751, table |-> "defense_reg", stat |-> "games", var |-> "player_games_reg_d", type |-> "int", blank |-> FALSE],
     [line |-> 755, table |-> "defense_reg", stat |-> "games_started", var |-> "player_games_started_reg_d", type |-> "int", blank |-> FALSE],
     [line |-> 759, table |-> "defense_reg", stat |-> "def_int", var |-> "player_def_int_reg", type |-> "int", blank |-> FALSE],
     [line |-> 763, table |-> "defense_reg", stat |-> "def_int_yds", var |-> "player_def_int_yds_reg", type |-> "int", blank |-> FALSE],
     [line |-> 767, table |-> "defense_reg", stat |-> "def_int_td", var |-> "player_def_int_td_reg", type |-> "int", blank |-> FALSE],
     [line |-> 771, table |-> "defense_reg", stat |-> "def_int_long", var |-> "player_def_int_long_reg", type |-> "int", blank |-> FALSE],
     [line |-> 775, table |-> "defense_reg", stat |-> "pass_defended", var |-> "player_pass_defended_reg", type |-> "int", blank |-> FALSE],
     [line |-> 779, table |-> "defense_reg", stat |-> "fumbles_forced", var |-> "player_fumbles_forced_reg", type |-> "int", blank |-> FALSE],
     [line |-> 783, table |-> "defense_reg", stat |-> "fumbles", var |-> "player_fumbles_reg_d", type |-> "int", blank |-> FALSE],
     [line |-> 787, table |-> "defense_reg", stat |-> "fumbles_rec", var |-> "player_fumbles_rec_reg", type |-> "int", blank |-> FALSE],
     [line |-> 791, table |-> "defense_reg", stat |-> "fumbles_rec_yds", var |-> "player_fumbles_rec_yds_reg", type |-> "int", blank |-> FALSE],
     [line |-> 795, table |-> "defense_reg", stat |-> "fumbles_rec_td", var |-> "player_fumbles_rec_td_reg", type |-> "int", blank |-> FALSE],
     [line |-> 799, table |-> "defense_reg", stat |-> "sacks", var |-> "player_sacks_reg", type |-> "float", blank |-> FALSE],
     [line |-> 803, table |-> "defense_reg", stat |-> "tackles_combined", var |-> "player_tackles_combined_reg", type |-> "int", blank |-> FALSE],
     [line |-> 807, table |-> "defense_reg", stat |-> "tackles_solo", var |-> "player_tackles_solo_reg", type |-> "int", blank |-> FALSE],
     [line |-> 811, table |-> "defense_reg", stat |-> "tackles_assists", var |-> "player_tackles_assists_reg", type |-> "int", blank |-> FALSE],
     [line |-> 815, table |-> "defense_reg", stat |-> "tackles_loss", var |-> "player_tackles_loss_reg", type |-> "int", blank |-> FALSE],
     [line |-> 819, table |-> "defense_reg", stat |-> "qb_hits", var |-> "player_qb_hits_reg", type |-> "int", blank |-> FALSE],
     [line |-> 823, table |-> "defense_reg", stat |-> "safety_md", var |-> "player_safety_md_reg", type |-> "int", blank |-> FALSE],
     [line |-> 850, table |-> "defense_post", stat |-> "games", var |-> "player_games_post_d", type |-> "int", blank |-> FALSE],
     [line |-> 854, table |-> "defense_post", stat |-> "games_started", var |-> "player_games_started_post_d", type |-> "int", blank |-> FALSE],
     [line |-> 858, table |-> "defense_post", stat |-> "def_int", var |-> "player_def_int_post", type |-> "int", blank |-> FALSE],
     [line |-> 862, table |-> "defense_post", stat |-> "def_int_yds", var |-> "player_def_int_yds_post", type |-> "int", blank |-> FALSE],
     [line |-> 866, table |-> "defense_post", stat |-> "def_int_td", var |-> "player_def_int_td_post", type |-> "int", blank |-> FALSE],
     [line |-> 870, table |-> "defense_post", stat |-> "def_int_long", var |-> "player_def_int_long_post", type |-> "int", blank |-> FALSE],
     [line |-> 874, table |-> "defense_post", stat |-> "pass_defended", var |-> "player_pass_defended_post", type |-> "int", blank |-> FALSE],
     [line |-> 878, table |-> "defense_post", stat |-> "fumbles_forced", var |-> "player_fumbles_forced_post", type |-> "int", blank |-> FALSE],
     [line |-> 882, table |-> "defense_post", stat |-> "fumbles", var |-> "player_fumbles_post_d", type |-> "int", blank |-> FALSE],
     [line |-> 886, table |-> "defense_post", stat |-> "fumbles_rec", var |-> "player_fumbles_rec_post", type |-> "int", blank |-> FALSE],
     [line |-> 890, table |-> "defense_post", stat |-> "fumbles_rec_yds", var |-> "player_fumbles_rec_yds_post", type |-> "int", blank |-> FALSE],
     [line |-> 894, table |-> "defense_post", stat |-> "fumbles_rec_td", var |-> "player_fumbles_rec_td_post", type |-> "int", blank |-> FALSE],
     [line |-> 898, table |-> "defense_post", stat |-> "sacks", var |-> "player_sacks_post", type |-> "float", blank |-> FALSE],
     [line |-> 902, table |-> "defense_post", stat |-> "tackles_combined", var |-> "player_tackles_combined_post", type |-> "int", blank |-> FALSE],
     [line |-> 906, table |-> "defense_post", stat |-> "tackles_solo", var |-> "player_tackles_solo_post", type |-> "int", blank |-> FALSE],
     [line |-> 910, table |-> "defense_post", stat |-> "tackles_assists", var |-> "player_tackles_assists_post", type |-> "int", blank |-> FALSE],
     [line |-> 914, table |-> "defense_post", stat |-> "tackles_loss", var |-> "player_tackles_loss_post", type |-> "int", blank |-> FALSE],
     [line |-> 918, table |-> "defense_post", stat |-> "qb_hits", var |-> "player_qb_hits_post", type |-> "int", blank |-> FALSE],
     [line |-> 922, table |-> "defense_post", stat |-> "safety_md", var |-> "player_safety_md_post", type |-> "int", blank |-> FALSE],
     [line |-> 942, table |-> "returns_reg", stat |-> "games", var |-> "player_games_reg_ret", type |-> "int", blank |-> FALSE],
     [line |-> 946, table |-> "returns_reg", stat |-> "games_started", var |-> "player_games_started_reg_ret", type |-> "int", blank |-> FALSE],
     [line |-> 950, table |-> "returns_reg", stat |-> "punt_ret", var |-> "player_punt_ret_reg", type |-> "int", blank |-> FALSE],
     [line |-> 954, table |-> "returns_reg", stat |-> "punt_ret_yds", var |-> "player_punt_ret_yds_reg", type |-> "int", blank |-> FALSE],
     [line |-> 958, table |-> "returns_reg", stat |-> "punt_ret_td", var |-> "player_punt_ret_td_reg", type |-> "int", blank |-> FALSE],
     [line |-> 962, table |-> "returns_reg", stat |-> "punt_ret_long", var |-> "player_punt_ret_long_reg", type |-> "int", blank |-> FALSE],
     [line |-> 966, table |-> "returns_reg", stat |-> "punt_ret_yds_per_ret", var |-> "player_punt_ret_yds_per_ret_reg", type |-> "float", blank |-> FALSE],
     [line |-> 970, table |-> "returns_reg", stat |-> "kick_ret", var |-> "player_kick_ret_reg", type |-> "int", blank |-> FALSE],
     [line |-> 974, table |-> "returns_reg", stat |-> "kick_ret_yds", var |-> "player_kick_ret_yds_reg", type |-> "int", blank |-> FALSE],
     [line |-> 978, table |-> "returns_reg", stat |-> "kick_ret_td", var |-> "player_kick_ret_td_reg", type |-> "int", blank |-> FALSE],
     [line |-> 982, table |-> "returns_reg", stat |-> "kick_ret_long", var |-> "player_kick_ret_long_reg", type |-> "int", blank |-> FALSE],
     [line |-> 986, table |-> "returns_reg", stat |-> "kick_ret_yds_per_ret", var |-> "player_kick_ret_yds_per_ret_reg", type |-> "float", blank |-> FALSE],
     [line |-> 1006, table |-> "returns_post", stat |-> "games", var |-> "player_games_post_ret", type |-> "int", blank |-> FALSE],
     [line |-> 1010, table |-> "returns_post", stat |-> "games_started", var |-> "player_games_started_post_ret", type |-> "int", blank |-> FALSE],
     [line |-> 1014, table |-> "returns_post", stat |-> "punt_ret", var |-> "player_punt_ret_post", type |-> "int", blank |-> FALSE],
     [line |-> 1018, table |-> "returns_post", stat |-> "punt_ret_yds", var |-> "player_punt_ret_yds_post", type |-> "int", blank |-> FALSE],
     [line |-> 1022, table |-> "returns_post", stat |-> "punt_ret_td", var |-> "player_punt_ret_td_post", type |-> "int", blank |-> FALSE],
     [line |-> 1026, table |-> "returns_post", stat |-> "punt_ret_long", var |-> "player_punt_ret_long_post", type |-> "int", blank |-> FALSE],
     [line |-> 1030, table |-> "returns_post", stat |-> "punt_ret_yds_per_ret", var |-> "player_punt_ret_yds_per_ret_post", type |-> "float", blank |-> FALSE],
     [line |-> 1034, table |-> "returns_post", stat |-> "kick_ret", var |-> "player_kick_ret_post", type |-> "int", blank |-> FALSE],
     [line |-> 1038, table |-> "returns_post", stat |-> "kick_ret_yds", var |-> "player_kick_ret_yds_post", type |-> "int", blank |-> FALSE],
     [line |-> 1042, table |-> "returns_post", stat |-> "kick_ret_td", var |-> "player_kick_ret_td_post", type |-> "int", blank |-> FALSE],
     [line |-> 1046, table |-> "returns_post", stat |-> "kick_ret_long", var |-> "player_kick_ret_long_post", type |-> "int", blank |-> FALSE],
     [line |-> 1050, table |-> "returns_post", stat |-> "kick_ret_yds_per_ret", var |-> "player_kick_ret_yds_per_ret_post", type |-> "float", blank |-> FALSE]
  >>

NumSpecs == Len(FieldSpecs)
LocalVars == {FieldSpecs[j].var : j \in 1..NumSpecs}
AllStats == {FieldSpecs[j].stat : j \in 1..NumSpecs}

\* the lookup that assigns a local (the two repeated lookups assign the same)
VarSpec ==
  [v \in LocalVars |->
     FieldSpecs[CHOOSE j \in 1..NumSpecs : FieldSpecs[j].var = v]]

\* the type the code reads a data-stat key as
KeyType ==
  [k \in AllStats |->
     FieldSpecs[CHOOSE j \in 1..NumSpecs : FieldSpecs[j].stat = k].type]

(***************************************************************************)
(* The dict literal returned by parse_player_stats_page: key and local.    *)
(***************************************************************************)
StatsLiteral ==
  <<
     <<"height", "height">>,
     <<"weight", "weight">>,
     <<"games_reg", "player_games_reg">>,
     <<"games_started_reg", "player_games_started_reg">>,
     <<"games_post", "player_games_post">>,
     <<"games_started_post", "player_games_started_post">>,
     <<"qb_record_reg", "player_qb_rec_reg">>,
     <<"pass_cmp_reg", "player_pass_cmp_reg">>,
     <<"pass_att_reg", "player_pass_att_reg">>,
     <<"pass_cmp_pct_reg", "player_pass_cmp_pct_reg">>,
     <<"pass_yds_reg", "player_pass_yds_reg">>,
     <<"pass_td_reg", "player_pass_td_reg">>,
     <<"pass_td_pct_reg", "player_pass_td_pct_reg">>,
     <<"pass_int_reg", "player_pass_int_reg">>,
     <<"pass_int_pct_reg", "player_pass_int_pct_reg">>,
     <<"pass_first_down_reg", "player_pass_first_down_reg">>,
     <<"pass_success_reg", "player_pass_success_reg">>,
     <<"pass_long_reg", "player_pass_long_reg">>,
     <<"pass_yds_per_att_reg", "player_pass_yds_per_att_reg">>,
     <<"pass_adj_yds_per_att_reg", "player_pass_adj_yds_per_att_reg">>,
     <<"pass_yds_per_cmp_reg", "player_pass_yds_per_cmp_reg">>,
     <<"pass_yds_per_g_reg", "player_pass_yds_per_g_reg">>,
     <<"pass_rating_reg", "player_pass_rating_reg">>,
     <<"pass_sacked_reg", "player_pass_sacked_reg">>,
     <<"pass_sacked_yds_reg", "player_pass_sacked_yds_reg">>,
     <<"pass_sacked_pct_reg", "player_pass_sacked_pct_reg">>,
     <<"pass_net_yds_per_att_reg", "player_pass_net_yds_per_att_reg">>,
     <<"pass_adj_net_yds_per_att_reg", "player_pass_adj_net_yds_per_att_reg">>,
     <<"comebacks_reg", "player_comebacks_reg">>,
     <<"gwd_reg", "player_gwd_reg">>,
     <<"qb_record_post", "player_qb_rec_post">>,
     <<"pass_cmp_post", "player_pass_cmp_post">>,
     <<"pass_att_post", "player_pass_att_post">>,
     <<"pass_cmp_pct_post", "player_pass_cmp_pct_post">>,
     <<"pass_yds_post", "player_pass_yds_post">>,
     <<"pass_td_post", "player_pass_td_post">>,
     <<"pass_td_pct_post", "player_pass_td_pct_post">>,
     <<"pass_int_post", "player_pass_int_post">>,
     <<"pass_int_pct_post", "player_pass_int_pct_post">>,
     <<"pass_first_down_post", "player_pass_first_down_post">>,
     <<"pass_success_post", "player_pass_success_post">>,
     <<"pass_long_post", "player_pass_long_post">>,
     <<"pass_yds_per_att_post", "player_pass_yds_per_att_post">>,
     <<"pass_adj_yds_per_att_post", "player_pass_adj_yds_per_att_post">>,
     <<"pass_yds_per_cmp_post", "player_pass_yds_per_cmp_post">>,
     <<"pass_yds_per_g_post", "player_pass_yds_per_g_post">>,
     <<"pass_rating_post", "player_pass_rating_post">>,
     <<"pass_sacked_post", "player_pass_sacked_post">>,
     <<"pass_sacked_yds_post", "player_pass_sacked_yds_post">>,
     <<"pass_sacked_pct_post", "player_pass_sacked_pct_post">>,
     <<"pass_net_yds_per_att_post", "player_pass_net_yds_per_att_post">>,
     <<"pass_adj_net_yds_per_att_post", "player_pass_adj_net_yds_per_att_post">>,
     <<"comebacks_post", "player_comebacks_post">>,
     <<"gwd_post", "player_gwd_post">>,
     <<"rush_att_reg", "player_rush_att_reg">>,
     <<"rush_yds_reg", "player_rush_yds_reg">>,
     <<"rush_td_reg", "player_rush_td_reg">>,
     <<"rush_first_down_reg", "player_rush_first_down_reg">>,
     <<"rush_success_reg", "player_rush_success_reg">>,
     <<"rush_long_reg", "player_rush_long_reg">>,
     <<"rush_yds_per_att_reg", "player_rush_yds_per_att_reg">>,
     <<"rush_yds_per_g_reg", "player_rush_yds_per_g_reg">>,
     <<"rush_att_per_g_reg", "player_rush_att_per_g_reg">>,
     <<"targets_reg", "player_targets_reg">>,
     <<"rec_reg", "player_rec_reg">>,
     <<"rec_yds_reg", "player_rec_yds_reg">>,
     <<"rec_yds_per_rec_reg", "player_rec_yds_per_rec_reg">>,
     <<"rec_td_reg", "player_rec_td_reg">>,
     <<"rec_first_down_reg", "player_rec_first_down_reg">>,
     <<"rec_success_reg", "player_rec_success_reg">>,
     <<"rec_long_reg", "player_rec_long_reg">>,
     <<"rec_per_g_reg", "player_rec_per_g_reg">>,
     <<"rec_yds_per_g_reg", "player_rec_yds_per_g_reg">>,
     <<"catch_pct_reg", "player_catch_pct_reg">>,
     <<"rec_yds_per_tgt_reg", "player_rec_yds_per_tgt_reg">>,
     <<"touches_reg", "player_touches_reg">>,
     <<"yds_per_touch_reg", "player_yds_per_touch_reg">>,
     <<"rush_receive_td_reg", "player_rush_receive_td_reg">>,
     <<"rush_att_post", "player_rush_att_post">>,
     <<"rush_yds_post", "player_rush_yds_post">>,
     <<"rush_td_post", "player_rush_td_post">>,
     <<"rush_first_down_post", "player_rush_first_down_post">>,
     <<"rush_success_post", "player_rush_success_post">>,
     <<"rush_long_post", "player_rush_long_post">>,
     <<"rush_yds_per_att_post", "player_rush_yds_per_att_post">>,
     <<"rush_yds_per_g_post", "player_rush_yds_per_g_post">>,
     <<"rush_att_per_g_post", "player_rush_att_per_g_post">>,
     <<"targets_post", "player_targets_post">>,
     <<"rec_post", "player_rec_post">>,
     <<"rec_yds_post", "player_rec_yds_post">>,
     <<"rec_yds_per_rec_post", "player_rec_yds_per_rec_post">>,
     <<"rec_td_post", "player_rec_td_post">>,
     <<"rec_first_down_post", "player_rec_first_down_post">>,
     <<"rec_success_post", "player_rec_success_post">>,
     <<"rec_long_post", "player_rec_long_post">>,
     <<"rec_per_g_post", "player_rec_per_g_post">>,
     <<"rec_yds_per_g_post", "player_rec_yds_per_g_post">>,
     <<"catch_pct_post", "player_catch_pct_post">>,
     <<"rec_yds_per_tgt_post", "player_rec_yds_per_tgt_post">>,
     <<"touches_post", "player_touches_post">>,
     <<"yds_per_touch_post", "player_yds_per_touch_post">>,
     <<"rush_receive_td_post", "player_rush_receive_td_post">>,
     <<"def_int_reg", "player_def_int_reg">>,
     <<"def_int_yds_reg", "player_def_int_yds_reg">>,
     <<"def_int_td_reg", "player_def_int_td_reg">>,
     <<"def_int_long_reg", "player_def_int_long_reg">>,
     <<"pass_defended_reg", "player_pass_defended_reg">>,
     <<"fumbles_forced_reg", "player_fumbles_forced_reg">>,
     <<"fumbles_reg", "player_fumbles_reg_d">>,
     <<"fumbles_rec_reg", "player_fumbles_rec_reg">>,
     <<"fumbles_rec_yds_reg", "player_fumbles_rec_yds_reg">>,
     <<"fumbles_rec_td_reg", "player_fumbles_rec_td_reg">>,
     <<"sacks_reg", "player_sacks_reg">>,
     <<"tackles_combined_reg", "player_tackles_combined_reg">>,
     <<"tackles_solo_reg", "player_tackles_solo_reg">>,
     <<"tackles_assists_reg", "player_tackles_assists_reg">>,
     <<"tackles_loss_reg", "player_tackles_loss_reg">>,
     <<"qb_hits_reg", "player_qb_hits_reg">>,
     <<"safety_md_reg", "player_safety_md_reg">>,
     <<"def_int_post", "player_def_int_post">>,
     <<"def_int_yds_post", "player_def_int_yds_post">>,
     <<"def_int_td_post", "player_def_int_td_post">>,
     <<"def_int_long_post", "player_def_int_long_post">>,
     <<"pass_defended_post", "player_pass_defended_post">>,
     <<"fumbles_forced_post", "player_fumbles_forced_post">>,
     <<"fumbles_post", "player_fumbles_post_d">>,
     <<"fumbles_rec_post", "player_fumbles_rec_post">>,
     <<"fumbles_rec_yds_post", "player_fumbles_rec_yds_post">>,
     <<"fumbles_rec_td_post", "player_fumbles_rec_td_post">>,
     <<"sacks_post", "player_sacks_post">>,
     <<"tackles_combined_post", "player_tackles_combined_post">>,
     <<"tackles_solo_post", "player_tackles_solo_post">>,
     <<"tackles_assists_post", "player_tackles_assists_post">>,
     <<"tackles_loss_post", "player_tackles_loss_post">>,
     <<"qb_hits_post", "player_qb_hits_post">>,
     <<"safety_md_post", "player_safety_md_post">>,
     <<"punt_ret_reg", "player_punt_ret_reg">>,
     <<"punt_ret_yds_reg", "player_punt_ret_yds_reg">>,
     <<"punt_ret_td_reg", "player_punt_ret_td_reg">>,
     <<"punt_ret_long_reg", "player_punt_ret_long_reg">>,
     <<"punt_ret_yds_per_ret_reg", "player_punt_ret_yds_per_ret_reg">>,
     <<"kick_ret_reg", "player_kick_ret_reg">>,
     <<"kick_ret_yds_reg", "player_kick_ret_yds_reg">>,
     <<"kick_ret_td_reg", "player_kick_ret_td_reg">>,
     <<"kick_ret_long_reg", "player_kick_ret_long_reg">>,
     <<"kick_ret_yds_per_ret_reg", "player_kick_ret_yds_per_ret_reg">>,
     <<"punt_ret_post", "player_punt_ret_post">>,
     <<"punt_ret_yds_post", "player_punt_ret_yds_post">>,
     <<"punt_ret_td_post", "player_punt_ret_td_post">>,
     <<"punt_ret_long_post", "player_punt_ret_long_post">>,
     <<"punt_ret_yds_per_ret_post", "player_punt_ret_yds_per_ret_post">>,
     <<"kick_ret_post", "player_kick_ret_post">>,
     <<"kick_ret_yds_post", "player_kick_ret_yds_post">>,
     <<"kick_ret_td_post", "player_kick_ret_td_post">>,
     <<"kick_ret_long_post", "player_kick_ret_long_post">>,
     <<"kick_ret_yds_per_ret_post", "player_kick_ret_yds_per_ret_post">>
  >>

StatsKeys == [j \in 1..Len(StatsLiteral) |-> StatsLiteral[j][1]]
StatsKeySet == {StatsLiteral[j][1] : j \in 1..Len(StatsLiteral)}
KeyLocal ==
  [k \in StatsKeySet |->
     StatsLiteral[CHOOSE j \in 1..Len(StatsLiteral) : StatsLiteral[j][1] = k][2]]

(***************************************************************************)
(* Documents.  A page has the div id=meta or not, and for every table id   *)
(* a table or none.  A table is described by the shape of its footer:      *)
(*   absent   no table with that id                                        *)
(*   notfoot  a table without a tfoot element                              *)
(*   full     every cell present with well-formed text, games 16, starts 9 *)
(*   g7       only the games cell, 7                                       *)
(*   g16      only the games cell, 16                                      *)
(*   g3       games 3 and a games-started cell with empty text             *)
(*   empty    games 16, starts 9, every other cell present with empty text *)
(*   bad      games 16, starts 9, every other cell holds "abc"             *)
(* and one key (odd) may hold a different list of cells (oddcells).        *)
(***************************************************************************)
TableIds ==
  {"games_played", "games_played_playoffs", "passing", "passing_post",
   "rushing_and_receiving", "receiving_and_rushing",
   "rushing_and_receiving_post", "receiving_and_rushing_post",
   "defense", "defense_post", "returns", "returns_post"}

GamesStats == {"g", "games"}
StartsStats == {"gs", "games_started"}

WellFormed(stat) ==
  CASE KeyType[stat] = "int" -> Txt12
    [] KeyType[stat] = "float" -> TxtDecimal
    [] KeyType[stat] = "text" -> TxtRecord

\* tfoot.find_all('td', {'data-stat': stat}): the texts of the matching cells
Cells(tbl, stat) ==
  IF tbl.odd = stat THEN tbl.oddcells
  ELSE IF tbl.kind = "g7" THEN (IF stat \in GamesStats THEN <<Txt7>> ELSE <<>>)
  ELSE IF tbl.kind = "g16"
    THEN (IF stat \in GamesStats THEN <<Txt16>> ELSE <<>>)
  ELSE IF tbl.kind = "g3"
    THEN (IF stat \in GamesStats THEN <<Txt3>>
          ELSE IF stat \in StartsStats THEN <<EmptyText>> ELSE <<>>)
  ELSE IF stat \in GamesStats THEN <<Txt16>>
  ELSE IF stat \in StartsStats THEN <<Txt9>>
  ELSE IF tbl.kind = "full" THEN <<WellFormed(stat)>>
  ELSE IF tbl.kind = "empty" THEN <<EmptyText>>
  ELSE <<TxtBad>>

Shape(kind) == [kind |-> kind, odd |-> "", oddcells |-> <<>>]
AbsentTable == Shape("absent")
BaseKinds == {"notfoot", "full", "g7", "g16", "g3", "empty", "bad"}

MetaAbsent == [present |-> FALSE, text |-> <<>>]
MetaMatch == [present |-> TRUE, text |-> TxtMetaMatch]
MetaNoMatch == [present |-> TRUE, text |-> TxtMetaNoMatch]
Metas == {MetaAbsent, MetaMatch, MetaNoMatch}

EmptyDoc == [meta |-> MetaAbsent, tables |-> [id \in TableIds |-> AbsentTable]]

\* the sets of table ids a generated page may hold
TableSets == {T \in SUBSET TableIds : Cardinality(T) <= MaxPresent}

\* the meta blocks tried with the tables S: all of them for pages of at most
\* one table, the one with the pattern for the others
MetasFor(S) == IF Cardinality(S) <= 1 THEN Metas ELSE {MetaMatch}

\* a page holding the tables S, the table id having the base shape k[id]
BaseDoc(m, S, k) ==
  [meta |-> m,
   tables |-> [id \in TableIds |-> IF id \in S THEN Shape(k[id]) ELSE AbsentTable]]

\* the variable a table id is read into
IdVar ==
  [id \in TableIds |->
     CASE id = "games_played" -> "games_reg"
       [] id = "games_played_playoffs" -> "games_post"
       [] id = "passing" -> "passing_reg"
       [] id = "passing_post" -> "passing_post"
       [] id \in {"rushing_and_receiving", "receiving_and_rushing"}
            -> "rushing_and_receiving_reg"
       [] id \in {"rushing_and_receiving_post", "receiving_and_rushing_post"}
            -> "rushing_and_receiving_post"
       [] id = "defense" -> "defense_reg"
       [] id = "defense_post" -> "defense_post"
       [] id = "returns" -> "returns_reg"
       [] id = "returns_post" -> "returns_post"]

StatsOfVar ==
  [tv \in {IdVar[id] : id \in TableIds} |->
     {FieldSpecs[j].stat : j \in {i \in 1..NumSpecs : FieldSpecs[i].table = tv}}]

OddCells ==
  {<<>>, <<EmptyText>>, <<TxtBad>>, <<TxtDecimal>>, <<TxtMinus5, Txt99>>,
   <<TxtPadded7>>}

\* a page with one full table t in which the key k holds the cells c
OddDoc(t, k, c) ==
  [meta |-> MetaMatch,
   tables |-> [id \in TableIds |->
                 IF id = t THEN [kind |-> "full", odd |-> k, oddcells |-> c]
                 ELSE AbsentTable]]

(***************************************************************************)
(* The height and weight search of lines 119-129 and 134-144.              *)
(***************************************************************************)
\* re.sub(r"\s+", " ", text)
RECURSIVE CollapseSpace(_)
CollapseSpace(s) ==
  IF Len(s) = 0 THEN <<>>
  ELSE IF s[1] \in SpaceChars THEN <<" ">> \o CollapseSpace(LStrip(s))
  ELSE <<s[1]>> \o CollapseSpace(Tail(s))

\* the index just after the run of digits that starts at i (i itself if none)
RECURSIVE DigitsEnd(_, _)
DigitsEnd(s, i) ==
  IF i <= Len(s) /\ IsDigit(s[i]) THEN DigitsEnd(s, i + 1) ELSE i

CharAt(s, i) == IF i \in 1..Len(s) THEN s[i] ELSE ""

\* (\d+-\d+), (\d+lb) matched at position i
MatchAt(s, i) ==
  LET a == DigitsEnd(s, i)
      b == DigitsEnd(s, a + 1)
      c == DigitsEnd(s, b + 2)
  IN  /\ a > i /\ CharAt(s, a) = "-"
      /\ b > a + 1 /\ CharAt(s, b) = "," /\ CharAt(s, b + 1) = " "
      /\ c > b + 2 /\ CharAt(s, c) = "l" /\ CharAt(s, c + 1) = "b"

\* the search with only the weight set to None when nothing matches
HeightWeightHalf(meta_info) ==
  LET s == CollapseSpace(meta_info) IN
  IF \E i \in 1..Len(s) : MatchAt(s, i)
    THEN LET i == CHOOSE j \in 1..Len(s) :
                    MatchAt(s, j) /\ \A k \in 1..(j - 1) : ~MatchAt(s, k)
             b == DigitsEnd(s, DigitsEnd(s, i) + 1)
             c == DigitsEnd(s, b + 2)
         IN  [height |-> StrV(SubSeq(s, i, b - 1)),
              weight |-> StrV(SubSeq(s, b + 2, c + 1))]
    ELSE [height |-> StrV(<<>>), weight |-> NoneV]

\* re.search: the leftmost match, height = group(1), weight = group(2)
HeightWeight(meta_info) ==
  LET s == CollapseSpace(meta_info) IN
  IF \E i \in 1..Len(s) : MatchAt(s, i)
    THEN LET i == CHOOSE j \in 1..Len(s) :
                    MatchAt(s, j) /\ \A k \in 1..(j - 1) : ~MatchAt(s, k)
             b == DigitsEnd(s, DigitsEnd(s, i) + 1)
             c == DigitsEnd(s, b + 2)
         IN  [height |-> StrV(SubSeq(s, i, b - 1)),
              weight |-> StrV(SubSeq(s, b + 2, c + 1))]
    ELSE [height |-> NoneV, weight |-> NoneV]

(***************************************************************************)
(* parse_player_stats_page.                                                *)
(***************************************************************************)
\* soup.find('table', {'id': id}); None is the absent shape
Find(soup, id) == soup.tables[id]
IsNone(tbl) == tbl.kind = "absent"

\* lines 483-485 without the fallback of lines 484-485
RushRecvRegPrimaryOnly(soup) == Find(soup, "rushing_and_receiving")

\* lines 483-485
RushRecvReg(soup) ==
  IF IsNone(Find(soup, "rushing_and_receiving"))
    THEN Find(soup, "receiving_and_rushing")
    ELSE Find(soup, "rushing_and_receiving")

\* lines 619-621: the alternate id is tried when the REGULAR-season table
\* variable is None
RushRecvPost(soup) ==
  IF IsNone(RushRecvReg(soup))
    THEN Find(soup, "receiving_and_rushing_post")
    ELSE Find(soup, "rushing_and_receiving_post")

\* the table variables of the function
TableVar(soup, tv) ==
  CASE tv = "games_reg" -> Find(soup, "games_played")
    [] tv = "games_post" -> Find(soup, "games_played_playoffs")
    [] tv = "passing_reg" -> Find(soup, "passing")
    [] tv = "passing_post" -> Find(soup, "passing_post")
    [] tv = "rushing_and_receiving_reg" -> RushRecvReg(soup)
    [] tv = "rushing_and_receiving_post" -> RushRecvPost(soup)
    [] tv = "defense_reg" -> Find(soup, "defense")
    [] tv = "defense_post" -> Find(soup, "defense_post")
    [] tv = "returns_reg" -> Find(soup, "returns")
    [] tv = "returns_post" -> Find(soup, "returns_post")

\* int(text), float(text) or the text itself
Coerce(type, text) ==
  CASE type = "int" ->
         IF IntParses(text) THEN [exc |-> "", val |-> IntOf(text)]
         ELSE [exc |-> "ValueError", val |-> NoneV]
    [] type = "float" ->
         IF FloatParses(text) THEN [exc |-> "", val |-> FloatOf(text)]
         ELSE [exc |-> "ValueError", val |-> NoneV]
    [] type = "text" -> [exc |-> "", val |-> StrV(text)]

\* the '' test of lines 158 and 175, made by the two games-started lookups
\* of the games_played tables only
BlankCell(f, text) == f.blank /\ text = EmptyText

\* a lookup without the `is not None` test on the table variable
LookupInUnguarded(tbl, f) ==
  IF IsNone(tbl) \/ tbl.kind = "notfoot"
    THEN [exc |-> "AttributeError", val |-> NoneV]
  ELSE LET cells == Cells(tbl, f.stat) IN
       IF Len(cells) = 0 THEN [exc |-> "", val |-> IntV(0)]
       ELSE IF BlankCell(f, cells[1]) THEN [exc |-> "", val |-> IntV(0)]
       ELSE Coerce(f.type, cells[1])

\* one lookup in the table a table variable holds: the local keeps its
\* initial 0 unless the table is there and its footer has a cell with the
\* key; the first cell is the one read
LookupIn(tbl, f) ==
  IF IsNone(tbl) THEN [exc |-> "", val |-> IntV(0)]
  ELSE IF tbl.kind = "notfoot" THEN [exc |-> "AttributeError", val |-> NoneV]
  ELSE LET cells == Cells(tbl, f.stat) IN
       IF Len(cells) = 0 THEN [exc |-> "", val |-> IntV(0)]
       ELSE IF BlankCell(f, cells[1]) THEN [exc |-> "", val |-> IntV(0)]
       ELSE Coerce(f.type, cells[1])

Lookup(soup, f) == LookupIn(TableVar(soup, f.table), f)

Max2(a, b) == IF b.n > a.n THEN b ELSE a
\* max([g, p, rr, d, ret]), lines 1055-1058
Max5(L, g, p, rr, d, ret) ==
  Max2(Max2(Max2(Max2(L[g], L[p]), L[rr]), L[d]), L[ret])

\* line 1055 without player_games_reg_d in the list
GamesRegNoDefense(L) ==
  Max2(Max2(Max2(L["player_games_reg_g"], L["player_games_reg_p"]),
            L["player_games_reg_rr"]), L["player_games_reg_ret"])

GamesReg(L) ==
  Max5(L, "player_games_reg_g", "player_games_reg_p", "player_games_reg_rr",
       "player_games_reg_d", "player_games_reg_ret")
GamesStartedReg(L) ==
  Max5(L, "player_games_started_reg_g", "player_games_started_reg_p",
       "player_games_started_reg_rr", "player_games_started_reg_d",
       "player_games_started_reg_ret")
GamesPost(L) ==
  Max5(L, "player_games_post_g", "player_games_post_p", "player_games_post_rr",
       "player_games_post_d", "player_games_post_ret")
GamesStartedPost(L) ==
  Max5(L, "player_games_started_post_g", "player_games_started_post_p",
       "player_games_started_post_rr", "player_games_started_post_d",
       "player_games_started_post_ret")

\* the dict built without the keys whose value is None
PlayerStatsSparse(hw, L) ==
  [k \in {x \in StatsKeySet : ~(x = "height" /\ hw.height = NoneV)
                              /\ ~(x = "weight" /\ hw.weight = NoneV)} |->
     CASE k = "height" -> hw.height
       [] k = "weight" -> hw.weight
       [] k = "games_reg" -> GamesReg(L)
       [] k = "games_started_reg" -> GamesStartedReg(L)
       [] k = "games_post" -> GamesPost(L)
       [] k = "games_started_post" -> GamesStartedPost(L)
       [] OTHER -> L[KeyLocal[k]]]

\* the dict literal of lines 1060-1225
PlayerStats(hw, L) ==
  [k \in StatsKeySet |->
     CASE k = "height" -> hw.height
       [] k = "weight" -> hw.weight
       [] k = "games_reg" -> GamesReg(L)
       [] k = "games_started_reg" -> GamesStartedReg(L)
       [] k = "games_post" -> GamesPost(L)
       [] k = "games_started_post" -> GamesStartedPost(L)
       [] OTHER -> L[KeyLocal[k]]]

\* the keys of a returned dict in iteration order, which is the order of
\* the literal
DictKeys(stats) == SelectSeq(StatsKeys, LAMBDA k : k \in DOMAIN stats)

NoStats == [k \in {} |-> NoneV]
Raised(e) == [exc |-> e, stats |-> NoStats]
Returned(r) == [exc |-> "", stats |-> r]

\* the module global `response`: unbound, None or a retrieved page
Unbound == [state |-> "unbound", doc |-> EmptyDoc]
NoResponse == [state |-> "none", doc |-> EmptyDoc]
Page(doc) == [state |-> "page", doc |-> doc]

\* the function with a missing div id=meta taken as no height and weight
\* (None in place of the .text of lines 116 and 133)
parse_player_stats_page_meta_optional(player_page, response_global) ==
  IF response_global.state = "unbound" THEN Raised("NameError")
  ELSE IF response_global.state = "none" THEN Raised("AttributeError")
  ELSE LET soup == response_global.doc
           looked == [j \in 1..NumSpecs |-> Lookup(soup, FieldSpecs[j])]
           failed == {j \in 1..NumSpecs : looked[j].exc # ""}
       IN  IF failed # {}
             THEN Raised(looked[CHOOSE j \in failed :
                                  \A k \in failed : j <= k].exc)
             ELSE LET L == [v \in LocalVars |-> Lookup(soup, VarSpec[v]).val]
                  IN  Returned(PlayerStats(HeightWeight(soup.meta.text), L))

\* Lines 110-1227.  player_page is the argument; line 131 builds the soup
\* that everything below it reads from the global `response`.
parse_player_stats_page(player_page, response_global) ==
  IF ~player_page.meta.present THEN Raised("AttributeError")
  ELSE IF response_global.state = "unbound" THEN Raised("NameError")
  ELSE IF response_global.state = "none" THEN Raised("AttributeError")
  ELSE LET soup == response_global.doc IN
       IF ~soup.meta.present THEN Raised("AttributeError")
       ELSE LET looked == [j \in 1..NumSpecs |-> Lookup(soup, FieldSpecs[j])]
                failed == {j \in 1..NumSpecs : looked[j].exc # ""}
            IN  IF failed # {}
                  THEN Raised(looked[CHOOSE j \in failed :
                                       \A k \in failed : j <= k].exc)
                  ELSE LET L == [v \in LocalVars |->
                                   Lookup(soup, VarSpec[v]).val]
                       IN  Returned(PlayerStats(HeightWeight(soup.meta.text), L))

(***************************************************************************)
(* The script (lines 1230-1264) and the files it reads and writes.         *)
(***************************************************************************)
\* the listing URLs of line 1232 (two letters stand for the alphabet)
Letters == <<"A", "B">>

\* what parse_player_list_page returns for the listing page of a letter:
\* one row per entry, 'scraped' False (lines 104-108)
ListingRows(letter) ==
  IF letter = "A"
    THEN <<[link |-> "/players/A/AbleAl00.htm", name |-> "Al Able",
            position |-> "QB", career_begin |-> 1990, career_end |-> 1999,
            active |-> FALSE, scraped |-> FALSE]>>
    ELSE <<[link |-> "/players/B/BakeBo00.htm", name |-> "Bo Baker",
            position |-> "LB", career_begin |-> 2020, career_end |-> 2024,
            active |-> TRUE, scraped |-> FALSE]>>

\* the player pages the site may serve to the script
PageDefense == BaseDoc(MetaMatch, {"defense"}, [id \in {"defense"} |-> "full"])
PagePassing ==
  BaseDoc(MetaNoMatch, {"passing", "games_played"},
          [id \in {"passing", "games_played"} |->
             IF id = "passing" THEN "full" ELSE "g7"])
PageMalformed == BaseDoc(MetaMatch, {"returns"}, [id \in {"returns"} |-> "bad"])
PageNoMeta == BaseDoc(MetaAbsent, {}, [id \in {} |-> "full"])
PlayerPages == {PageDefense, PagePassing, PageMalformed, PageNoMeta}

(***************************************************************************)
(* parse_player_list_page (lines 78-108).  An entry is one <p> of the      *)
(* listing: whether it has an <a>, the href and text of the <a>, the text  *)
(* that follows it, and whether it has a <b>.                              *)
(***************************************************************************)
EntryAble ==
  [a |-> TRUE, href |-> "/players/A/AbleAl00.htm", name |-> <<"A", "l">>,
   tail |-> <<" ", "(", "Q", "B", ")", " ", "1", "9", "9", "0", "-", "1",
              "9", "9", "9">>, b |-> FALSE]
EntryBaker ==
  [a |-> TRUE, href |-> "/players/B/BakeBo00.htm", name |-> <<"B", "o">>,
   tail |-> <<" ", "(", "L", "B", "-", "D", "E", ")", " ", "2", "0", "2", "0",
              "-", "2", "0", "2", "4", "\n">>, b |-> TRUE]
EntryNoAnchor ==
  [a |-> FALSE, href |-> "", name |-> <<>>,
   tail |-> <<"C", "y", " ", "(", "K", ")", " ", "1", "9", "8", "0", "-",
              "1", "9", "8", "1">>, b |-> FALSE]
EntryNoYears ==
  [a |-> TRUE, href |-> "/players/D/DoeDa00.htm", name |-> <<"D", "a">>,
   tail |-> <<" ", "(", "Q", "B", ")">>, b |-> FALSE]
EntryThreeYears ==
  [a |-> TRUE, href |-> "/players/E/EelEd00.htm", name |-> <<"E", "d">>,
   tail |-> <<" ", "(", "T", "E", ")", " ", "1", "9", "-", "2", "0", "-",
              "2", "1">>, b |-> FALSE]
EntryOpenRange ==
  [a |-> TRUE, href |-> "/players/F/FoxFy00.htm", name |-> <<"F", "y">>,
   tail |-> <<" ", "(", "W", "R", ")", " ", "2", "0", "2", "1", "-">>,
   b |-> TRUE]
EntryNoPosition ==
  [a |-> TRUE, href |-> "/players/G/GeeGo00.htm", name |-> <<"G", "o">>,
   tail |-> <<" ", "1", "9", "7", "0", "-", "1", "9", "7", "5">>, b |-> FALSE]
EntryKinds ==
  {EntryAble, EntryBaker, EntryNoAnchor, EntryNoYears, EntryThreeYears,
   EntryOpenRange, EntryNoPosition}

\* entry.text
EntryText(e) == (IF e.a THEN e.name ELSE <<>>) \o e.tail

\* str.split(c): the pieces between the occurrences of c
RECURSIVE SplitOn(_, _)
SplitOn(s, c) ==
  IF \E j \in 1..Len(s) : s[j] = c
    THEN LET j == CHOOSE i \in 1..Len(s) :
                    s[i] = c /\ \A k \in 1..(i - 1) : s[k] # c
         IN  <<SubSeq(s, 1, j - 1)>> \o SplitOn(SubSeq(s, j + 1, Len(s)), c)
    ELSE <<s>>

LastOf(pieces) == pieces[Len(pieces)]

\* line 95
PositionOf(e) == LastOf(SplitOn(SplitOn(EntryText(e), ")")[1], "("))
\* lines 98-99: the pieces that map(int, ...) is unpacked from
YearPieces(e) == SplitOn(Strip(LastOf(SplitOn(EntryText(e), ")"))), "-")

\* lines 90-99 raise on the entry
EntryError(e) ==
  IF ~e.a THEN "TypeError"
  ELSE IF Len(YearPieces(e)) # 2 THEN "ValueError"
  ELSE IF \E j \in 1..2 : ~IntParses(YearPieces(e)[j]) THEN "ValueError"
  ELSE ""

\* the row with active left False
ListRowInactive(e) ==
  [link |-> e.href, name |-> e.name, position |-> PositionOf(e),
   career_begin |-> IntOf(YearPieces(e)[1]).n,
   career_end |-> IntOf(YearPieces(e)[2]).n,
   active |-> FALSE, scraped |-> FALSE]

\* lines 89-103 and 106: the row of an entry
ListRow(e) ==
  [link |-> e.href, name |-> e.name, position |-> PositionOf(e),
   career_begin |-> IntOf(YearPieces(e)[1]).n,
   career_end |-> IntOf(YearPieces(e)[2]).n,
   active |-> e.b, scraped |-> FALSE]

\* the rows of the entries before the first one that raises
parse_player_list_page_partial(player_list) ==
  IF ~player_list.div THEN [exc |-> "AttributeError", rows |-> <<>>]
  ELSE LET es == player_list.entries
           bad == {j \in 1..Len(es) : EntryError(es[j]) # ""}
           n == IF bad = {} THEN Len(es)
                ELSE (CHOOSE j \in bad : \A k \in bad : j <= k) - 1
       IN  [exc |-> "", rows |-> [j \in 1..n |-> ListRow(es[j])]]

\* lines 85-108: the first entry that raises ends the call
parse_player_list_page(player_list) ==
  IF ~player_list.div THEN [exc |-> "AttributeError", rows |-> <<>>]
  ELSE LET es == player_list.entries
           bad == {j \in 1..Len(es) : EntryError(es[j]) # ""}
       IN  IF bad # {}
             THEN [exc |-> EntryError(es[CHOOSE j \in bad :
                                           \A k \in bad : j <= k]),
                   rows |-> <<>>]
             ELSE [exc |-> "", rows |-> [j \in 1..Len(es) |-> ListRow(es[j])]]

\* line 24, and the delay of line 66 in seconds
SCRAPING_RATE == 10
delay == 60 \div SCRAPING_RATE

\* a listing page: whether div id=div_players is there, and its <p> entries
NoListing == [div |-> FALSE, entries |-> <<>>]

NoFile == [exists |-> FALSE, rows |-> <<>>]
File(rows) == [exists |-> TRUE, rows |-> rows]

VARIABLES
  list_csv,        \* the file PLAYER_LIST_PATH, 'data/player_list.csv'
  cwd_list_csv,    \* the file 'player_list.csv' of line 1260
  stats_csv,       \* the file PLAYER_STATS_PATH
  player_list_df,  \* the roster in memory
  all_data,        \* the list scrape_player_lists builds
  url,             \* position of scrape_player_lists in urls
  it,              \* position of the for loop of line 1241 in the roster
  response,        \* the module global `response`
  player_page,     \* the argument of the current parse_player_stats_page call
  player_stats,    \* what that call returned or raised
  pc,              \* where the process is
  runs,            \* process starts so far
  calls,           \* direct calls of parse_player_stats_page: document, result
  attempts,        \* requests the current scrape_page call has issued
  status,          \* outcome of the last of them
  returned,        \* what that scrape_page call returned
  player_list_page,\* the argument of the parse_player_list_page call
  player_data,     \* what that call returned or raised
  slept            \* seconds of time.sleep since the last page retrieval

vars ==
  <<list_csv, cwd_list_csv, stats_csv, player_list_df, all_data, url, it,
    response, player_page, player_stats, pc, runs, calls, attempts, status,
    returned, player_list_page, player_data, slept>>

files == <<list_csv, cwd_list_csv, stats_csv>>
crawl == <<all_data, url>>
call == <<player_page, player_stats>>
net == <<attempts, status, returned>>
listing == <<player_list_page, player_data>>

Pending == Raised("pending")

\* no scrape_page and no parse_player_list_page call is under way
NoData == [exc |-> "pending", rows |-> <<>>]
Idle ==
  /\ attempts = 0
  /\ status = ""
  /\ returned = "pending"
  /\ player_list_page = NoListing
  /\ player_data = NoData

\* a process has just been started: nothing in memory, the files as they are
Fresh ==
  /\ player_list_df = <<>>
  /\ all_data = <<>>
  /\ url = 1
  /\ it = 1
  /\ response = Unbound
  /\ player_page = EmptyDoc
  /\ player_stats = Pending
  /\ pc = "start"

Init ==
  /\ list_csv = NoFile
  /\ cwd_list_csv = NoFile
  /\ stats_csv = NoFile
  /\ runs = 1
  /\ calls = <<>>
  /\ Idle
  /\ slept = -1
  /\ Fresh

\* the crawl entered whether the roster file exists or not
StartAlwaysCrawl ==
  /\ pc = "start"
  /\ pc' = "crawl"
  /\ UNCHANGED <<files, player_list_df, crawl, it, response, call, runs, calls>>
  /\ UNCHANGED <<net, listing, slept>>

\* line 1231
Start ==
  /\ pc = "start"
  /\ pc' = IF list_csv.exists THEN "load" ELSE "crawl"
  /\ UNCHANGED <<files, player_list_df, crawl, it, response, call, runs, calls>>
  /\ UNCHANGED <<net, listing, slept>>

\* one iteration of the loop of scrape_player_lists (lines 67-75); the
\* response of line 69 is local to that function; the iteration ends with
\* time.sleep(delay), whatever scrape_page returned
CrawlPage ==
  /\ pc = "crawl"
  /\ url <= Len(Letters)
  /\ \E ok \in BOOLEAN :
       all_data' = IF ok THEN Append(all_data, ListingRows(Letters[url]))
                   ELSE all_data
  /\ url' = url + 1
  /\ slept' = delay
  /\ UNCHANGED <<files, player_list_df, it, response, call, pc, runs, calls>>
  /\ UNCHANGED <<net, listing>>

RECURSIVE Concat(_)
Concat(frames) ==
  IF Len(frames) = 0 THEN <<>> ELSE Head(frames) \o Concat(Tail(frames))

\* the identifiers counted from 0
WithIdsZeroBased(rows) ==
  [j \in 1..Len(rows) |->
     [player_id |-> j - 1, link |-> rows[j].link, name |-> rows[j].name,
      position |-> rows[j].position, career_begin |-> rows[j].career_begin,
      career_end |-> rows[j].career_end, active |-> rows[j].active,
      scraped |-> rows[j].scraped]]

\* lines 1235-1236: one frame, player_id 1..n inserted in front
WithIds(rows) ==
  [j \in 1..Len(rows) |->
     [player_id |-> j, link |-> rows[j].link, name |-> rows[j].name,
      position |-> rows[j].position, career_begin |-> rows[j].career_begin,
      career_end |-> rows[j].career_end, active |-> rows[j].active,
      scraped |-> rows[j].scraped]]

\* lines 1233-1237; pd.concat of an empty list raises ValueError
BuildRoster ==
  /\ pc = "crawl"
  /\ url > Len(Letters)
  /\ IF all_data = <<>>
       THEN /\ pc' = "crashed"
            /\ UNCHANGED list_csv
       ELSE /\ list_csv' = File(WithIds(Concat(all_data)))
            /\ pc' = "load"
  /\ UNCHANGED <<cwd_list_csv, stats_csv, player_list_df, crawl, it, response,
                 call, runs, calls>>
  /\ UNCHANGED <<net, listing, slept>>

\* line 1239
LoadRoster ==
  /\ pc = "load"
  /\ player_list_df' = list_csv.rows
  /\ it' = 1
  /\ pc' = "loop"
  /\ UNCHANGED <<files, crawl, response, call, runs, calls>>
  /\ UNCHANGED <<net, listing, slept>>

\* the loop variable i of line 1241, and the row the code reads with [i-1]
CurId == player_list_df[it].player_id
CurRow == player_list_df[CurId]

\* the loop without the test of line 1242
LoopStepNoSkip ==
  /\ pc = "loop"
  /\ IF it > Len(player_list_df) THEN pc' = "done" /\ it' = it
     ELSE pc' = "scrape" /\ it' = it
  /\ UNCHANGED <<files, player_list_df, crawl, response, call, runs, calls>>
  /\ UNCHANGED <<net, listing, slept>>

\* lines 1241-1242
LoopStep ==
  /\ pc = "loop"
  /\ IF it > Len(player_list_df) THEN pc' = "done" /\ it' = it
     ELSE IF CurRow.scraped = FALSE THEN pc' = "scrape" /\ it' = it
     ELSE pc' = "loop" /\ it' = it + 1
  /\ UNCHANGED <<files, player_list_df, crawl, response, call, runs, calls>>
  /\ UNCHANGED <<net, listing, slept>>

\* line 1259 with the row selection left out
SetScrapedAll(df, i) ==
  [j \in 1..Len(df) |-> [df[j] EXCEPT !.scraped = TRUE]]

\* line 1259
SetScraped(df, i) ==
  [j \in 1..Len(df) |->
     IF df[j].player_id = i THEN [df[j] EXCEPT !.scraped = TRUE] ELSE df[j]]

\* line 1260 writes 'player_list.csv', not PLAYER_LIST_PATH
SaveRoster(df) ==
  /\ cwd_list_csv' = File(df)
  /\ UNCHANGED list_csv

\* the else branch marking the player as scraped all the same
PageUnavailableMarked ==
  /\ pc' = "loop"
  /\ it' = it + 1
  /\ player_list_df' = SetScraped(player_list_df, CurId)
  /\ SaveRoster(player_list_df')
  /\ UNCHANGED stats_csv

\* lines 1263-1264: scrape_page returned None
PageUnavailable ==
  /\ pc' = "loop"
  /\ it' = it + 1
  /\ UNCHANGED <<files, player_list_df>>

\* lines 1243-1246 and 1263-1264; no statement of the loop body sleeps
ScrapePlayer ==
  /\ pc = "scrape"
  /\ \E r \in {NoResponse} \cup {Page(d) : d \in PlayerPages} :
       /\ response' = r
       /\ IF r.state = "none" THEN PageUnavailable
          ELSE /\ pc' = "parse"
               /\ UNCHANGED <<files, player_list_df, it>>
  /\ slept' = 0
  /\ UNCHANGED <<crawl, call, runs, calls>>
  /\ UNCHANGED <<net, listing>>

\* line 1247; nothing in the script catches what the call raises
ExtractionFailed ==
  /\ pc' = "crashed"
  /\ UNCHANGED it

ParsePlayer ==
  /\ pc = "parse"
  /\ player_page' = response.doc
  /\ player_stats' = parse_player_stats_page(response.doc, response)
  /\ IF player_stats'.exc # "" THEN ExtractionFailed
     ELSE pc' = "append" /\ UNCHANGED it
  /\ UNCHANGED <<files, player_list_df, crawl, response, runs, calls>>
  /\ UNCHANGED <<net, listing, slept>>

HeaderRow == [header |-> TRUE, player_id |-> 0, name |-> "", stats |-> NoStats]
\* the row built from the keys that hold a value only
StatsRowPartial(row, stats) ==
  [header |-> FALSE, player_id |-> row.player_id, name |-> row.name,
   stats |-> [k \in {x \in DOMAIN stats : stats[x] # NoneV} |-> stats[k]]]

StatsRow(row, stats) ==
  [header |-> FALSE, player_id |-> row.player_id, name |-> row.name,
   stats |-> stats]

\* the append with header=True on every write
AppendStatsWithHeader ==
  /\ pc = "append"
  /\ stats_csv' =
       File(stats_csv.rows
              \o <<HeaderRow,
                    StatsRow([player_id |-> CurId, name |-> CurRow.name],
                             player_stats.stats)>>)
  /\ pc' = "flag"
  /\ UNCHANGED <<list_csv, cwd_list_csv, player_list_df, crawl, it, response,
                 call, runs, calls>>
  /\ UNCHANGED <<net, listing, slept>>

\* lines 1248-1257: mode='a', the header only when the file does not exist
AppendStats ==
  /\ pc = "append"
  /\ stats_csv' =
       File((IF stats_csv.exists THEN stats_csv.rows ELSE <<HeaderRow>>)
              \o <<StatsRow([player_id |-> CurId, name |-> CurRow.name],
                            player_stats.stats)>>)
  /\ pc' = "flag"
  /\ UNCHANGED <<list_csv, cwd_list_csv, player_list_df, crawl, it, response,
                 call, runs, calls>>
  /\ UNCHANGED <<net, listing, slept>>

\* lines 1259-1262
MarkScraped ==
  /\ pc = "flag"
  /\ player_list_df' = SetScraped(player_list_df, CurId)
  /\ SaveRoster(player_list_df')
  /\ it' = it + 1
  /\ pc' = "loop"
  /\ UNCHANGED <<stats_csv, crawl, response, call, runs, calls>>
  /\ UNCHANGED <<net, listing, slept>>

\* the process ends (finished, crashed or interrupted at any point) and the
\* script is started again: the files stay, the memory is new
Restart ==
  /\ pc # "start"
  /\ runs < MaxRuns
  /\ runs' = runs + 1
  /\ player_list_df' = <<>>
  /\ all_data' = <<>>
  /\ url' = 1
  /\ it' = 1
  /\ response' = Unbound
  /\ player_page' = EmptyDoc
  /\ player_stats' = Pending
  /\ pc' = "start"
  /\ slept' = -1
  /\ UNCHANGED <<files, calls>>
  /\ UNCHANGED <<net, listing>>

Next ==
  \/ Start
  \/ CrawlPage
  \/ BuildRoster
  \/ LoadRoster
  \/ LoopStep
  \/ ScrapePlayer
  \/ ParsePlayer
  \/ AppendStats
  \/ MarkScraped
  \/ Restart

Spec == Init /\ [][Next]_vars

(***************************************************************************)
(* The call of line 1247 on the generated pages: the script stands at the  *)
(* call with the page of its first player just retrieved.                  *)
(***************************************************************************)
LoadedRoster == WithIds(Concat(<<ListingRows("A"), ListingRows("B")>>))

InitParse ==
  /\ list_csv = File(LoadedRoster)
  /\ cwd_list_csv = NoFile
  /\ stats_csv = NoFile
  /\ player_list_df = LoadedRoster
  /\ all_data = <<>>
  /\ url = 1
  /\ it = 1
  /\ \/ \E S \in TableSets : \E k \in [S -> BaseKinds] : \E m \in MetasFor(S) :
          response = Page(BaseDoc(m, S, k))
     \/ \E t \in TableIds : \E k \in StatsOfVar[IdVar[t]] : \E c \in OddCells :
          response = Page(OddDoc(t, k, c))
  /\ player_page = EmptyDoc
  /\ player_stats = Pending
  /\ pc = "parse"
  /\ runs = 1
  /\ calls = <<>>
  /\ Idle
  /\ slept = -1

SpecParse == InitParse /\ [][ParsePlayer]_vars

(***************************************************************************)
(* parse_player_stats_page called from elsewhere than line 1247: the       *)
(* module global `response` is what the statement of line 1245 bound last, *)
(* or is unbound when nothing has bound it.                                *)
(***************************************************************************)
InitCall ==
  /\ list_csv = NoFile
  /\ cwd_list_csv = NoFile
  /\ stats_csv = NoFile
  /\ runs = 1
  /\ calls = <<>>
  /\ Idle
  /\ slept = -1
  /\ player_list_df = <<>>
  /\ all_data = <<>>
  /\ url = 1
  /\ it = 1
  /\ response = Unbound
  /\ player_page = EmptyDoc
  /\ player_stats = Pending
  /\ pc = "session"

\* response = scrape_page(...), line 1245
BindResponse ==
  /\ pc = "session"
  /\ \E r \in {NoResponse} \cup {Page(d) : d \in PlayerPages} : response' = r
  /\ UNCHANGED <<files, player_list_df, crawl, it, call, pc, runs, calls>>
  /\ UNCHANGED <<net, listing, slept>>

\* a call that uses up the retrieved page it read: the global is None
\* after it
DirectCallConsuming ==
  /\ pc = "session"
  /\ Len(calls) < MaxCalls
  /\ \E d \in PlayerPages :
       /\ player_page' = d
       /\ player_stats' = parse_player_stats_page(d, response)
       /\ response' = IF response.state = "page" THEN NoResponse ELSE response
       /\ calls' = Append(calls, [doc |-> d, result |-> player_stats',
                                  before |-> response, after |-> response'])
  /\ UNCHANGED <<files, player_list_df, crawl, it, pc, runs>>
  /\ UNCHANGED <<net, listing, slept>>

\* parse_player_stats_page(d); the call log keeps the document, the result
\* and what the global `response` held before and after the call
DirectCall ==
  /\ pc = "session"
  /\ Len(calls) < MaxCalls
  /\ \E d \in PlayerPages :
       /\ player_page' = d
       /\ player_stats' = parse_player_stats_page(d, response)
       /\ UNCHANGED response
       /\ calls' = Append(calls, [doc |-> d, result |-> player_stats',
                                  before |-> response, after |-> response'])
  /\ UNCHANGED <<files, player_list_df, crawl, it, pc, runs>>
  /\ UNCHANGED <<net, listing, slept>>

NextCall == BindResponse \/ DirectCall

SpecCall == InitCall /\ [][NextCall]_vars


(***************************************************************************)
(* scrape_page (lines 26-55): one call, request by request.  The session   *)
(* of lines 36-46 repeats a GET that came to no response or to a status of *)
(* status_forcelist until `total` retries are used up.                     *)
(***************************************************************************)
\* line 26
max_retries == 10

\* line 39 with a status that is not retry-eligible added
status_forcelist_with_404 == {"404", "429", "500", "502", "503", "504"}

\* line 39
status_forcelist == {"429", "500", "502", "503", "504"}

\* what one request comes to: the status of a response, or no response
NoResponseOutcomes == {"Timeout", "ConnectionError"}
Outcomes ==
  {"200", "404", "429", "500", "502", "503", "504"} \cup NoResponseOutcomes

\* the request is repeated: GET is in allowed_methods (line 40), so a lost
\* connection or a timeout counts like a status of the forcelist
Retried(s) == s \in NoResponseOutcomes \/ s \in status_forcelist

InitScrape ==
  /\ list_csv = NoFile
  /\ cwd_list_csv = NoFile
  /\ stats_csv = NoFile
  /\ runs = 1
  /\ calls = <<>>
  /\ Idle
  /\ slept = -1
  /\ player_list_df = <<>>
  /\ all_data = <<>>
  /\ url = 1
  /\ it = 1
  /\ response = Unbound
  /\ player_page = EmptyDoc
  /\ player_stats = Pending
  /\ pc = "scrape_page"

\* one request of session.get (line 50)
SendRequest ==
  /\ pc = "scrape_page"
  /\ returned = "pending"
  /\ attempts = 0 \/ (Retried(status) /\ attempts <= max_retries)
  /\ attempts' = attempts + 1
  /\ \E s \in Outcomes : status' = s
  /\ UNCHANGED <<files, player_list_df, crawl, it, response, call, pc, runs,
                 calls, returned, listing, slept>>

\* lines 50-52 without raise_for_status: any response is returned
ReturnWithoutRaiseForStatus ==
  /\ pc = "scrape_page"
  /\ returned = "pending"
  /\ attempts >= 1
  /\ ~(Retried(status) /\ attempts <= max_retries)
  /\ returned' = IF status \in NoResponseOutcomes \/ status \in status_forcelist
                   THEN "None" ELSE "response"
  /\ UNCHANGED <<files, player_list_df, crawl, it, response, call, pc, runs,
                 calls, attempts, status, listing, slept>>

\* lines 50-55: session.get gives the response or raises (retries used up,
\* no connection, timeout), raise_for_status raises on a 4xx or 5xx status,
\* and every RequestException is turned into None
ReturnFromScrape ==
  /\ pc = "scrape_page"
  /\ returned = "pending"
  /\ attempts >= 1
  /\ ~(Retried(status) /\ attempts <= max_retries)
  /\ returned' = IF status = "200" THEN "response" ELSE "None"
  /\ UNCHANGED <<files, player_list_df, crawl, it, response, call, pc, runs,
                 calls, attempts, status, listing, slept>>

NextScrape == SendRequest \/ ReturnFromScrape

\* the call runs on: nothing in it waits for another process
SpecScrape == InitScrape /\ [][NextScrape]_vars /\ WF_vars(NextScrape)


(***************************************************************************)
(* parse_player_list_page called on the generated listing pages.           *)
(***************************************************************************)
InitList ==
  /\ list_csv = NoFile
  /\ cwd_list_csv = NoFile
  /\ stats_csv = NoFile
  /\ runs = 1
  /\ calls = <<>>
  /\ attempts = 0
  /\ status = ""
  /\ returned = "pending"
  /\ \/ player_list_page = NoListing
     \/ \E n \in 0..MaxEntries : \E es \in [1..n -> EntryKinds] :
          player_list_page = [div |-> TRUE, entries |-> es]
  /\ player_data = NoData
  /\ slept = -1
  /\ player_list_df = <<>>
  /\ all_data = <<>>
  /\ url = 1
  /\ it = 1
  /\ response = Unbound
  /\ player_page = EmptyDoc
  /\ player_stats = Pending
  /\ pc = "parse_list"

\* player_data = parse_player_list_page(response), line 71
ParseList ==
  /\ pc = "parse_list"
  /\ player_data' = parse_player_list_page(player_list_page)
  /\ pc' = "parsed"
  /\ UNCHANGED <<files, player_list_df, crawl, it, response, call, runs, calls,
                 net, player_list_page, slept>>

SpecList == InitList /\ [][ParseList]_vars


(***************************************************************************)
(* One run of the script from start to end, started either without a       *)
(* roster file or with the roster file found at PLAYER_LIST_PATH, whatever *)
(* flags it holds (lines 1231 and 1239).                                   *)
(***************************************************************************)
RosterWithFlags(f) ==
  [j \in 1..Len(LoadedRoster) |-> [LoadedRoster[j] EXCEPT !.scraped = f[j]]]

InitRun ==
  /\ \/ list_csv = NoFile
     \/ \E f \in [1..Len(LoadedRoster) -> BOOLEAN] :
          list_csv = File(RosterWithFlags(f))
  /\ cwd_list_csv = NoFile
  /\ stats_csv = NoFile
  /\ runs = 1
  /\ calls = <<>>
  /\ Idle
  /\ slept = -1
  /\ Fresh

NextRun ==
  \/ Start
  \/ CrawlPage
  \/ BuildRoster
  \/ LoadRoster
  \/ LoopStep
  \/ ScrapePlayer
  \/ ParsePlayer
  \/ AppendStats
  \/ MarkScraped

SpecRun == InitRun /\ [][NextRun]_vars


(***************************************************************************)
(* Properties.                                                             *)
(***************************************************************************)
CallReturned == player_stats.exc = ""
CallRaised == player_stats.exc \notin {"", "pending"}
\* the call of line 1247 is over, one way or the other
CallOver == pc \in {"append", "crashed"} /\ player_stats # Pending

TableVarNames == {IdVar[id] : id \in TableIds}
ReconciledKeys ==
  {"games_reg", "games_started_reg", "games_post", "games_started_post"}
\* the keys of the record that come from the table variable tv
KeysOf(tv) ==
  {k \in StatsKeySet \ (ReconciledKeys \cup {"height", "weight"}) :
     VarSpec[KeyLocal[k]].table = tv}

RegularVars ==
  {"games_reg", "passing_reg", "rushing_and_receiving_reg", "defense_reg",
   "returns_reg"}
PostVars ==
  {"games_post", "passing_post", "rushing_and_receiving_post", "defense_post",
   "returns_post"}

\* no table of the category tv is in the document
CategoryAbsent(doc, tv) ==
  \A id \in TableIds : IdVar[id] = tv => IsNone(doc.tables[id])

\* the text coerces to the type the key is read as
Coercible(stat, text) ==
  CASE KeyType[stat] = "int" -> IntParses(text)
    [] KeyType[stat] = "float" -> FloatParses(text)
    [] KeyType[stat] = "text" -> TRUE

\* the table, if there, has a footer in which every cell that is looked up
\* holds non-empty text of its type
TextsCoercible(tbl, tv) ==
  IsNone(tbl) \/
    /\ tbl.kind # "notfoot"
    /\ \A stat \in StatsOfVar[tv] :
         LET cells == Cells(tbl, stat) IN
         Len(cells) = 0 \/ (cells[1] # EmptyText /\ Coercible(stat, cells[1]))

\* as TextsCoercible, but a looked-up cell may also hold empty text
TextsCoercibleOrEmpty(tbl, tv) ==
  IsNone(tbl) \/
    /\ tbl.kind # "notfoot"
    /\ \A stat \in StatsOfVar[tv] :
         LET cells == Cells(tbl, stat) IN
         Len(cells) = 0 \/ cells[1] = EmptyText \/ Coercible(stat, cells[1])

\* the table the specification has the category tv read from
ClaimedReg(doc) ==
  IF ~IsNone(doc.tables["rushing_and_receiving"])
    THEN doc.tables["rushing_and_receiving"]
    ELSE doc.tables["receiving_and_rushing"]
ClaimedPost(doc) ==
  IF ~IsNone(doc.tables["rushing_and_receiving_post"])
    THEN doc.tables["rushing_and_receiving_post"]
    ELSE doc.tables["receiving_and_rushing_post"]
ClaimedTable(doc, tv) ==
  CASE tv = "rushing_and_receiving_reg" -> ClaimedReg(doc)
    [] tv = "rushing_and_receiving_post" -> ClaimedPost(doc)
    [] OTHER -> doc.tables[CHOOSE id \in TableIds : IdVar[id] = tv]

\* the value the footer of a table gives the record key k
ValueIn(tbl, k) == LookupIn(tbl, VarSpec[KeyLocal[k]]).val

\* the initial value of every local of the function (lines 146-147, 180-205, ...)
DeclaredDefault == IntV(0)

FlagWritten(i) ==
  \E f \in {list_csv, cwd_list_csv} :
    \E j \in 1..Len(f.rows) : f.rows[j].player_id = i /\ f.rows[j].scraped

C2_ProcessedPlayerSkipped == pc = "scrape" => ~FlagWritten(CurId)

\* C3: in a document whose looked-up cells hold either empty text or text of
\* their type, extraction returns, and every field whose cell is there with
\* empty text has its declared default.
C3_EmptyCellYieldsDefault ==
  ( /\ CallOver
    /\ player_page.meta.present
    /\ \A id \in TableIds :
         TextsCoercibleOrEmpty(player_page.tables[id], IdVar[id]) ) =>
    /\ CallReturned
    /\ \A tv \in TableVarNames : \A k \in KeysOf(tv) :
         LET tbl == ClaimedTable(player_page, tv)
             cells == IF IsNone(tbl) THEN <<>>
                      ELSE Cells(tbl, VarSpec[KeyLocal[k]].stat)
         IN  (Len(cells) > 0 /\ cells[1] = EmptyText) =>
               player_stats.stats[k] = DeclaredDefault

\* C4: the postseason rushing/receiving fields of a returned record are
\* those of the table 'rushing_and_receiving_post' when it is there,
\* otherwise of 'receiving_and_rushing_post', otherwise the defaults,
\* whatever regular-season tables the document holds.
C4_PostFallback ==
  (CallOver /\ CallReturned) =>
    \A k \in KeysOf("rushing_and_receiving_post") :
      player_stats.stats[k] = ValueIn(ClaimedPost(player_page), k)

\* C5: the regular-season rushing/receiving fields of a returned record are
\* those of the table 'rushing_and_receiving' when it is there, otherwise of
\* 'receiving_and_rushing', otherwise the defaults; a table that is read and
\* has no footer makes the call fail.
C5_RegFallback ==
  (CallOver /\ player_page.meta.present) =>
    /\ CallReturned =>
         /\ \A k \in KeysOf("rushing_and_receiving_reg") :
              player_stats.stats[k] = ValueIn(ClaimedReg(player_page), k)
         /\ CategoryAbsent(player_page, "rushing_and_receiving_reg") =>
              \A k \in KeysOf("rushing_and_receiving_reg") :
                player_stats.stats[k] = DeclaredDefault
    /\ ClaimedReg(player_page).kind = "notfoot" => CallRaised

\* the primary table is absent and the record holds the figures of the
\* alternate table
C5_Witness ==
  /\ pc = "append"
  /\ IsNone(player_page.tables["rushing_and_receiving"])
  /\ player_page.tables["receiving_and_rushing"].kind = "full"
  /\ player_stats.stats["rush_att_reg"] = IntV(12)
  /\ player_stats.stats["catch_pct_reg"] = FloatV(456, 1)

\* the games and games-started lookups of a table variable
GamesSpecOf(tv) ==
  FieldSpecs[CHOOSE j \in 1..NumSpecs :
               FieldSpecs[j].table = tv /\ FieldSpecs[j].stat \in GamesStats]
StartsSpecOf(tv) ==
  FieldSpecs[CHOOSE j \in 1..NumSpecs :
               FieldSpecs[j].table = tv /\ FieldSpecs[j].stat \in StartsStats]

SetMax(S) == CHOOSE m \in S : \A x \in S : x <= m

\* the figures the tables of a season type report, an absent table or cell 0
GamesReported(doc, tvs) ==
  {LookupIn(ClaimedTable(doc, tv), GamesSpecOf(tv)).val.n : tv \in tvs}
StartsReported(doc, tvs) ==
  {LookupIn(ClaimedTable(doc, tv), StartsSpecOf(tv)).val.n : tv \in tvs}

\* C6: each of games_reg, games_started_reg, games_post, games_started_post
\* of a returned record is the maximum of the figures the five tables of
\* the season type report, games and games-started each on its own.
C6_GamesAreMax ==
  (CallOver /\ CallReturned) =>
    /\ player_stats.stats["games_reg"] =
         IntV(SetMax(GamesReported(player_page, RegularVars)))
    /\ player_stats.stats["games_started_reg"] =
         IntV(SetMax(StartsReported(player_page, RegularVars)))
    /\ player_stats.stats["games_post"] =
         IntV(SetMax(GamesReported(player_page, PostVars)))
    /\ player_stats.stats["games_started_post"] =
         IntV(SetMax(StartsReported(player_page, PostVars)))

\* a cell of a table of the document holds non-empty text that does not
\* coerce to the type of its key
UncoercibleCell(doc) ==
  \E id \in TableIds :
    /\ doc.tables[id].kind \notin {"absent", "notfoot"}
    /\ \E stat \in StatsOfVar[IdVar[id]] :
         LET cells == Cells(doc.tables[id], stat) IN
         \E j \in 1..Len(cells) :
           cells[j] # EmptyText /\ ~Coercible(stat, cells[j])

\* C7: extraction fails only for a document without the meta container or
\* with a cell whose text does not coerce to its type.
C7_FailsOnlyInTwoCases ==
  (CallOver /\ CallRaised) =>
    (~player_page.meta.present \/ UncoercibleCell(player_page))

\* C8: two calls of parse_player_stats_page on the same document give the
\* same result, whatever was retrieved in between.
C8_DeterminedByDocument ==
  \A a, b \in 1..Len(calls) :
    calls[a].doc = calls[b].doc => calls[a].result = calls[b].result

\* C9: when the extraction of a player's page fails, the script goes on to
\* the next player with the stats file and the processed flags unchanged.
C9_ExtractionFailureSkipsPlayer ==
  [][ ( /\ pc = "parse"
        /\ runs' = runs
        /\ parse_player_stats_page(response.doc, response).exc # "" ) =>
        ( /\ pc' = "loop"
          /\ it' = it + 1
          /\ UNCHANGED <<files, player_list_df>> ) ]_vars

\* C10: when scrape_page returns None for a player's page, nothing is
\* appended to the stats file, no processed flag changes, and the loop goes
\* on to the next player.
C10_UnavailablePageSkipsPlayer ==
  [][ (pc = "scrape" /\ runs' = runs /\ response'.state = "none") =>
        ( /\ UNCHANGED <<files, player_list_df>>
          /\ it' = it + 1
          /\ pc' = "loop" ) ]_vars

\* the page of the first player was unavailable and the script stands before
\* the retrieval of the second, nothing stored, no flag set
C10_Witness ==
  /\ pc = "scrape"
  /\ it = 2
  /\ response = NoResponse
  /\ stats_csv = NoFile
  /\ \A j \in 1..Len(player_list_df) : ~player_list_df[j].scraped

\* the stats file ends with the record of player i
LastStoredIs(f, i) ==
  /\ f.exists
  /\ Len(f.rows) > 0
  /\ ~f.rows[Len(f.rows)].header
  /\ f.rows[Len(f.rows)].player_id = i

\* C11: within a run a player's page is retrieved, then extracted, then its
\* record appended, then its flag set, and only then does the loop reach
\* the next player; the flag is set only with the player's record at the
\* end of the stats file, and setting it changes nothing else in the roster.
C11_StepsInOrder ==
  [][ /\ pc' = "scrape" => pc = "loop"
      /\ pc' = "parse" => (pc = "scrape" /\ response'.state = "page" /\ it' = it)
      /\ pc' = "append" =>
           (pc = "parse" /\ player_stats'.exc = "" /\ it' = it
              /\ player_page' = response.doc)
      /\ pc' = "flag" =>
           (pc = "append" /\ it' = it /\ LastStoredIs(stats_csv', CurId)
              /\ stats_csv'.rows[Len(stats_csv'.rows)].stats = player_stats.stats)
      /\ (runs' = runs /\ it' # it /\ pc # "load") =>
           (it' = it + 1 /\ pc \in {"loop", "scrape", "flag"} /\ pc' = "loop")
      /\ (runs' = runs /\ pc # "load" /\ player_list_df' # player_list_df) =>
           /\ pc = "flag"
           /\ LastStoredIs(stats_csv, CurId)
           /\ ~CurRow.scraped
           /\ player_list_df' = [player_list_df EXCEPT ![CurId].scraped = TRUE]
           /\ UNCHANGED stats_csv ]_vars

\* the first player went through all four steps and the script stands
\* before the retrieval of the second
C11_Witness ==
  /\ pc = "scrape"
  /\ it = 2
  /\ runs = 1
  /\ LastStoredIs(stats_csv, 1)
  /\ player_list_df[1].scraped
  /\ ~player_list_df[2].scraped

\* C12: every record row of the stats file holds every key of the record
\* and is the record a completed call of parse_player_stats_page returned;
\* a call that raises leaves the stats file, the roster files and the
\* flags as they were.
C12_NoPartialRecord ==
  [][ /\ \A j \in 1..Len(stats_csv'.rows) :
           ~stats_csv'.rows[j].header =>
             DOMAIN stats_csv'.rows[j].stats = StatsKeySet
      /\ stats_csv' # stats_csv =>
           /\ pc = "append"
           /\ player_stats = parse_player_stats_page(player_page, response)
           /\ player_stats.exc = ""
           /\ stats_csv'.rows[Len(stats_csv'.rows)].stats = player_stats.stats
      /\ ( /\ pc = "parse"
           /\ runs' = runs
           /\ parse_player_stats_page(response.doc, response).exc # "" ) =>
           UNCHANGED <<files, player_list_df>> ]_vars

\* the extraction of the second player's page failed after the record of
\* the first was stored: the stats file holds the header and that one
\* record, and the flag of the second player is unset
C12_Witness ==
  /\ pc = "crashed"
  /\ it = 2
  /\ player_stats.exc \in {"AttributeError", "ValueError"}
  /\ stats_csv.exists
  /\ Len(stats_csv.rows) = 2
  /\ LastStoredIs(stats_csv, 1)
  /\ ~player_list_df[2].scraped

\* the first cell of a numeric key in the table the category tv is read
\* from holds non-empty text that does not coerce to the type of the key
MalformedNumberIn(tbl, tv) ==
  /\ tbl.kind \notin {"absent", "notfoot"}
  /\ \E stat \in StatsOfVar[tv] :
       LET cells == Cells(tbl, stat) IN
       /\ KeyType[stat] # "text"
       /\ Len(cells) > 0
       /\ cells[1] # EmptyText
       /\ ~Coercible(stat, cells[1])

\* C13: when a cell that is there holds non-empty text that does not parse
\* as the number its field is declared to be, the call raises: no record is
\* returned and the field is not left at its default.
C13_MalformedNumberFails ==
  ( /\ CallOver
    /\ player_page.meta.present
    /\ \E tv \in TableVarNames :
         MalformedNumberIn(ClaimedTable(player_page, tv), tv) ) =>
    CallRaised

\* C14: every record the call returns has the same keys in the same order,
\* those of the dict literal, whatever tables and cells the document held.
C14_KeysAndOrderFixed ==
  (CallOver /\ CallReturned) =>
    /\ DOMAIN player_stats.stats = StatsKeySet
    /\ DictKeys(player_stats.stats) = StatsKeys
    /\ Len(DictKeys(player_stats.stats)) = Cardinality(StatsKeySet)

\* a record returned for a page without the height and weight pattern and
\* with a returns table only: it has the keys of the literal all the same
C14_Witness ==
  /\ pc = "append"
  /\ CallReturned
  /\ player_page.meta = MetaNoMatch
  /\ player_page.tables["returns"].kind = "full"
  /\ CategoryAbsent(player_page, "passing_reg")
  /\ DictKeys(player_stats.stats)[1] = "height"
  /\ player_stats.stats["height"] = NoneV

\* the value the footer of a table holds for the record key k: its first
\* cell with the key coerced to the type of the key, the default without one
FooterValue(tbl, k) ==
  LET f == VarSpec[KeyLocal[k]]
      cells == Cells(tbl, f.stat)
  IN  IF Len(cells) = 0 THEN DeclaredDefault ELSE Coerce(f.type, cells[1]).val

\* the games or games-started figure of the footer of a table
FooterFigure(tbl, f) ==
  LET cells == Cells(tbl, f.stat)
  IN  IF Len(cells) = 0 THEN DeclaredDefault ELSE Coerce(f.type, cells[1]).val

\* the only table of the document is 'defense'
DefenseOnly(doc) ==
  /\ doc.meta.present
  /\ ~IsNone(doc.tables["defense"])
  /\ \A id \in TableIds \ {"defense"} : IsNone(doc.tables[id])

\* the games and games-started figures of the footer are counts
CountsNotNegative(tbl, tv) ==
  /\ FooterFigure(tbl, GamesSpecOf(tv)).n >= 0
  /\ FooterFigure(tbl, StartsSpecOf(tv)).n >= 0

C16_MissingMetaFails ==
  (CallOver /\ ~player_page.meta.present) =>
    /\ CallRaised
    /\ player_stats.exc = "AttributeError"
    /\ player_stats.stats = NoStats

\* the call raised on a page without the meta container that holds a full
\* passing table
C16_Witness ==
  /\ pc = "crashed"
  /\ ~player_page.meta.present
  /\ player_page.tables["passing"].kind = "full"
  /\ player_stats = Raised("AttributeError")

\* the document with its meta block replaced by one that holds the pattern
WithPattern(doc) == [doc EXCEPT !.meta = MetaMatch]

\* C17: for a document whose meta container is there without the height and
\* weight pattern, the record has height and weight None and every other
\* field as for the same tables under a meta block with the pattern, and
\* the call returns whenever it returns for those; with the pattern both
\* are text; in every record the two are set together or unset together.
C17_HeightWeightSentinel ==
  (CallOver /\ player_page.meta.present) =>
    LET other == parse_player_stats_page(WithPattern(player_page),
                                         Page(WithPattern(player_page)))
    IN  /\ CallReturned <=> other.exc = ""
        /\ CallReturned =>
             /\ player_stats.stats["height"] = NoneV
                  <=> player_stats.stats["weight"] = NoneV
             /\ player_page.meta = MetaNoMatch =>
                  /\ player_stats.stats["height"] = NoneV
                  /\ player_stats.stats["weight"] = NoneV
             /\ player_page.meta = MetaMatch =>
                  /\ player_stats.stats["height"] = StrV(<<"6", "-", "2">>)
                  /\ player_stats.stats["weight"] =
                       StrV(<<"2", "2", "5", "l", "b">>)
             /\ \A k \in StatsKeySet \ {"height", "weight"} :
                  player_stats.stats[k] = other.stats[k]

\* a record with height and weight None and the figures of a full returns
\* table, for a page whose meta text lacks the pattern
C17_Witness ==
  /\ pc = "append"
  /\ player_page.meta = MetaNoMatch
  /\ player_page.tables["returns"].kind = "full"
  /\ player_stats.stats["height"] = NoneV
  /\ player_stats.stats["weight"] = NoneV
  /\ player_stats.stats["punt_ret_reg"] = IntV(12)

TextKeys ==
  {k \in StatsKeySet \ (ReconciledKeys \cup {"height", "weight"}) :
     VarSpec[KeyLocal[k]].type = "text"}
NullableKeys == {"height", "weight"} \cup TextKeys

\* C19: a returned record holds every key of the literal; only height,
\* weight and the qb record fields may be None; every other field holds a
\* number; a qb record field holds text or None, never a number, also when
\* the passing table or its qb_rec cell is absent.
C19_FieldTypes ==
  (CallOver /\ CallReturned) =>
    /\ DOMAIN player_stats.stats = StatsKeySet
    /\ \A k \in StatsKeySet \ NullableKeys :
         player_stats.stats[k].t \in {"int", "float"}
    /\ \A k \in {"height", "weight"} :
         player_stats.stats[k].t \in {"str", "none"}
    /\ \A k \in TextKeys : player_stats.stats[k].t \in {"str", "none"}

\* the flag of player i in a roster (a file's rows or the frame in memory)
FlagIn(rows, i) ==
  \E j \in 1..Len(rows) : rows[j].player_id = i /\ rows[j].scraped

PlayerIds == 1..Len(LoadedRoster)

\* C20: a processed flag goes from false to true only when the record of
\* its player has been stored, and a flag that is true stays true: in the
\* roster the run holds, in each roster file from one write to the next,
\* and from the roster files the script wrote to the roster the next run
\* loads.
C20_FlagSetOnce ==
  [][ \A i \in PlayerIds :
        /\ (runs' = runs /\ FlagIn(player_list_df, i)) =>
             FlagIn(player_list_df', i)
        /\ (runs' = runs /\ pc # "load" /\ ~FlagIn(player_list_df, i)
              /\ FlagIn(player_list_df', i)) =>
             (\E j \in 1..Len(stats_csv.rows) :
                ~stats_csv.rows[j].header /\ stats_csv.rows[j].player_id = i)
        /\ FlagIn(list_csv.rows, i) => FlagIn(list_csv'.rows, i)
        /\ FlagIn(cwd_list_csv.rows, i) => FlagIn(cwd_list_csv'.rows, i)
        /\ (pc = "load" /\ pc' = "loop" /\ FlagWritten(i)) =>
             FlagIn(player_list_df', i) ]_vars

\* C21: the stats file, once it exists, starts with its one header row and
\* holds record rows after it; every write appends one record row and
\* leaves the rows before it as they were, in the same run or a later one.
C21_HeaderOnceAppendOnly ==
  [][ /\ stats_csv'.exists =>
           /\ Len(stats_csv'.rows) >= 2
           /\ stats_csv'.rows[1] = HeaderRow
           /\ \A j \in 2..Len(stats_csv'.rows) : ~stats_csv'.rows[j].header
      /\ stats_csv.exists => stats_csv'.exists
      /\ stats_csv' # stats_csv =>
           /\ Len(stats_csv'.rows) =
                (IF stats_csv.exists THEN Len(stats_csv.rows) ELSE 1) + 1
           /\ \A j \in 1..Len(stats_csv.rows) :
                stats_csv'.rows[j] = stats_csv.rows[j]
           /\ stats_csv'.rows[Len(stats_csv'.rows)] =
                StatsRow([player_id |-> CurId, name |-> CurRow.name],
                         player_stats.stats) ]_vars

\* records written in two runs: the file holds the header and then the
\* records of players 1, 2 and, from the second run, 1 again
C21_Witness ==
  /\ runs = 2
  /\ stats_csv.exists
  /\ Len(stats_csv.rows) = 4
  /\ stats_csv.rows[1].header
  /\ stats_csv.rows[2].player_id = 1
  /\ stats_csv.rows[3].player_id = 2
  /\ stats_csv.rows[4].player_id = 1

\* a step in which a page is retrieved: an iteration of the listing crawl
\* or the scrape_page call of the player loop
Retrieval ==
  \/ pc = "crawl" /\ url' = url + 1
  \/ pc = "scrape" /\ runs' = runs

C22_BoundedRetries ==
  /\ [](attempts <= 1 + max_retries)
  /\ [][ (attempts' = attempts + 1 /\ attempts >= 1
            /\ status \notin NoResponseOutcomes) =>
           status \in {"429", "500", "502", "503", "504"} ]_vars
  /\ [][ returned' # returned =>
           (attempts >= 1 /\ returned' \in {"response", "None"}) ]_vars
  /\ <>(returned \in {"response", "None"})

\* the call gave up after 1 + max_retries requests that all came to 503
C22_Witness ==
  /\ attempts = 1 + max_retries
  /\ status = "503"
  /\ returned = "None"

\* C23: scrape_page returns the response when the last request came to a
\* response with a success status, and None in every other case: no
\* connection, timeout, retries used up, or an error status that is not
\* retried, such as 404; nothing is raised to the caller.
C23_ResponseOrNone ==
  [][ returned' # returned =>
        /\ returned = "pending"
        /\ returned' \in {"response", "None"}
        /\ returned' = "response" <=> status = "200"
        /\ status \in {"404", "Timeout", "ConnectionError"} => returned' = "None"
        /\ (status \in {"429", "500", "502", "503", "504"}) =>
             (returned' = "None" /\ attempts = 1 + max_retries) ]_vars

\* the second request came to 404 and the call returned None
C23_Witness ==
  /\ attempts = 2
  /\ status = "404"
  /\ returned = "None"

ListParsed == pc = "parsed"

\* the index at which the run of digits that ends at i begins (i + 1 when
\* the character at i is no digit)
RECURSIVE DigitsBegin(_, _)
DigitsBegin(s, i) ==
  IF i >= 1 /\ IsDigit(s[i]) THEN DigitsBegin(s, i - 1) ELSE i + 1

\* the text, trailing white space aside, ends in integer '-' integer, and
\* no further '-' precedes the first of the two
EndsInYearRange(text) ==
  LET t == RStrip(text)
      n == Len(t)
      b2 == DigitsBegin(t, n)
      b1 == DigitsBegin(t, b2 - 2)
  IN  /\ b2 <= n
      /\ b2 >= 2
      /\ t[b2 - 1] = "-"
      /\ b1 <= b2 - 2
      /\ (b1 = 1 \/ t[b1 - 1] # "-")

\* C25: when an entry of the listing has no anchor or does not end in a
\* range of exactly two integers, parse_player_list_page raises and returns
\* no rows; a call that raises never returns part of the rows.
C25_ListAllOrNothing ==
  ListParsed =>
    /\ ( /\ player_list_page.div
         /\ \E j \in 1..Len(player_list_page.entries) :
              \/ ~player_list_page.entries[j].a
              \/ ~EndsInYearRange(EntryText(player_list_page.entries[j])) ) =>
         player_data.exc # ""
    /\ ~player_list_page.div => player_data.exc # ""
    /\ player_data.exc # "" => player_data.rows = <<>>

\* a well-formed entry followed by one without years: the call raised and
\* gave no row, not the row of the first entry
C25_Witness ==
  /\ ListParsed
  /\ player_list_page.entries = <<EntryAble, EntryNoYears>>
  /\ player_data = [exc |-> "ValueError", rows |-> <<>>]

\* C26: a call that returns gives one row per entry, in the order of the
\* listing, with the link, name, position and years of the entry, active
\* exactly when the entry has a bold tag, and scraped False.
C26_OneRowPerEntry ==
  (ListParsed /\ player_data.exc = "") =>
    LET es == player_list_page.entries
        rows == player_data.rows
    IN  /\ Len(rows) = Len(es)
        /\ \A j \in 1..Len(es) :
             /\ rows[j].link = es[j].href
             /\ rows[j].name = es[j].name
             /\ rows[j].active = es[j].b
             /\ rows[j].scraped = FALSE
             /\ es[j] = EntryAble =>
                  /\ rows[j].position = <<"Q", "B">>
                  /\ rows[j].career_begin = 1990
                  /\ rows[j].career_end = 1999
             /\ es[j] = EntryBaker =>
                  /\ rows[j].position = <<"L", "B", "-", "D", "E">>
                  /\ rows[j].career_begin = 2020
                  /\ rows[j].career_end = 2024

\* a listing of a bold entry and a plain one gave two rows in that order,
\* the first active and the second not
C26_Witness ==
  /\ ListParsed
  /\ player_list_page.entries = <<EntryBaker, EntryAble>>
  /\ Len(player_data.rows) = 2
  /\ player_data.rows[1].active
  /\ ~player_data.rows[2].active
  /\ player_data.rows[2].link = "/players/A/AbleAl00.htm"

\* the position it of the loop is at an entry of the roster
AtEntry == it \in 1..Len(player_list_df)

\* how far the loop has come: the entry it is at and the step within it
LoopProgress ==
  5 * it + (CASE pc = "loop" -> 0
              [] pc = "scrape" -> 1
              [] pc = "parse" -> 2
              [] pc = "append" -> 3
              [] pc = "flag" -> 4
              [] OTHER -> 0)

\* C28: in one run the loop goes through the roster entry by entry in
\* roster order.  An entry loaded with its flag true is passed over with
\* nothing retrieved and nothing stored; an entry with its flag false is
\* retrieved once and the loop then moves past it; records are stored for
\* entries with the flag false only; every step of the loop moves the run
\* forward (LoopProgress grows and is bounded by the length of the roster),
\* so the run comes to its end, which is past the last entry unless an
\* extraction failed (or the crawl got no page).
C28_EachEntryOnce ==
  /\ [][ /\ pc \in {"loop", "scrape", "parse", "append", "flag"} =>
              /\ it' \in {it, it + 1}
              /\ pc' \in {"done", "crashed"} \/ LoopProgress' > LoopProgress
         /\ pc' = "scrape" =>
              (pc = "loop" /\ it' = it /\ AtEntry
                 /\ ~player_list_df[it].scraped)
         /\ (pc = "loop" /\ AtEntry /\ player_list_df[it].scraped) =>
              (pc' = "loop" /\ it' = it + 1
                 /\ UNCHANGED <<files, response, player_list_df>>)
         /\ pc = "scrape" =>
              \/ pc' = "parse" /\ it' = it
              \/ pc' = "loop" /\ it' = it + 1
         /\ pc = "parse" => (pc' \in {"append", "crashed"} /\ it' = it)
         /\ pc = "append" => (pc' = "flag" /\ it' = it)
         /\ pc = "flag" => (pc' = "loop" /\ it' = it + 1)
         /\ stats_csv' # stats_csv =>
              (AtEntry /\ ~player_list_df[it].scraped
                 /\ LastStoredIs(stats_csv', player_list_df[it].player_id))
         /\ pc' = "done" => it > Len(player_list_df) ]_vars
  /\ [](pc = "crashed" =>
          (player_stats.exc \notin {"", "pending"} \/ all_data = <<>>))
  /\ [](it <= Len(player_list_df) + 1)

\* a run that found the roster file with the first flag true and the second
\* false has ended: only the second player was retrieved and stored
C28_Witness ==
  /\ pc = "done"
  /\ list_csv = File(RosterWithFlags(<<TRUE, FALSE>>))
  /\ it = 3
  /\ Len(stats_csv.rows) = 2
  /\ LastStoredIs(stats_csv, 2)
  /\ player_list_df[2].scraped


\* C29: the player_id values of the roster, in the file and in memory, are
\* 1..N in roster order, so the row the loop reads with [i-1] is the entry
\* whose player_id is i: the flag tested, the link fetched, the row appended
\* to the statistics file and the flag set all belong to the entry the loop
\* is at.
C29_IdsContiguous ==
  /\ [](/\ list_csv.exists =>
             \A j \in 1..Len(list_csv.rows) : list_csv.rows[j].player_id = j
        /\ \A j \in 1..Len(player_list_df) : player_list_df[j].player_id = j
        /\ (pc \in {"scrape", "parse", "append", "flag"} \/ (pc = "loop" /\ AtEntry)) =>
             /\ AtEntry
             /\ CurId = it
             /\ CurRow = player_list_df[it]
             /\ \A j \in 1..Len(player_list_df) :
                  player_list_df[j].player_id = CurId <=> j = it)
  /\ [][ /\ pc' = "scrape" => ~player_list_df[it].scraped
         /\ (pc = "append" /\ pc' = "flag") =>
              stats_csv'.rows[Len(stats_csv'.rows)] =
                StatsRow([player_id |-> it, name |-> player_list_df[it].name],
                         player_stats.stats)
         /\ (pc = "flag" /\ pc' = "loop") =>
              player_list_df' = [player_list_df EXCEPT ![it].scraped = TRUE] ]_vars

C29_Witness ==
  /\ pc = "loop"
  /\ it = 3
  /\ Len(player_list_df) = 2
  /\ player_list_df[2].scraped
  /\ ~player_list_df[1].scraped
  /\ stats_csv.exists
  /\ LastStoredIs(stats_csv, 2)


\* the frames of the listing pages with index in S, in URL order
RECURSIVE FramesOf(_, _)
FramesOf(S, k) ==
  IF k > Len(Letters) THEN <<>>
  ELSE (IF k \in S THEN <<ListingRows(Letters[k])>> ELSE <<>>) \o FramesOf(S, k + 1)

HasPlayer(rows, link) == \E j \in 1..Len(rows) : rows[j].link = link

\* C30: the crawl is entered only when no roster file exists; each listing
\* page in URL order either adds its frame or, its retrieval having failed,
\* adds nothing; the roster file is written only by that crawl, from the
\* frames it gathered in that order, and once it exists it is never written
\* again, so a player of a failed listing page is in the roster of no later
\* run.
C30_CrawlOnlyWithoutFile ==
  /\ [](pc = "crawl" =>
          /\ ~list_csv.exists
          /\ \E S \in SUBSET (1..(url - 1)) : all_data = FramesOf(S, 1))
  /\ [][ /\ (pc = "start" /\ pc' # "start") =>
              pc' = (IF list_csv.exists THEN "load" ELSE "crawl")
         /\ (pc = "crawl" /\ pc' = "crawl" /\ url' # url) =>
              /\ url' = url + 1
              /\ all_data' \in {all_data,
                                Append(all_data, ListingRows(Letters[url]))}
         /\ list_csv' # list_csv =>
              /\ pc = "crawl"
              /\ ~list_csv.exists
              /\ url > Len(Letters)
              /\ list_csv' = File(WithIds(Concat(all_data)))
         /\ list_csv.exists =>
              /\ list_csv' = list_csv
              /\ \A k \in 1..Len(Letters) :
                   ~HasPlayer(list_csv.rows, ListingRows(Letters[k])[1].link) =>
                     ~HasPlayer(player_list_df', ListingRows(Letters[k])[1].link)
       ]_vars

\* a later run has gone through a roster that lacks the players of page A
C30_Witness ==
  /\ runs = 2
  /\ pc = "done"
  /\ list_csv.exists
  /\ ~HasPlayer(list_csv.rows, ListingRows("A")[1].link)
  /\ HasPlayer(player_list_df, ListingRows("B")[1].link)
  /\ Len(player_list_df) = 1

=============================================================================
